---- MODULE Spec2Model ----
(***************************************************************************)
(* A model of lili's bytecode virtual machine (src/lili/vm.py) driven by   *)
(* the debugger commands of src/lili/__main__.py.                          *)
(*                                                                         *)
(* Python objects are modelled as follows.                                 *)
(*   - A value is a record [t, v, items]: t is the Python type, v an       *)
(*     integer payload, items the elements of a tuple or list or the       *)
(*     __defaults__ of a function.                                         *)
(*   - Mutable containers (a frame's stack, locals, globals, builtins)     *)
(*     live in a heap and frames hold references to them, so that two      *)
(*     frames holding the same dict object see each other's writes.        *)
(*   - Python sequences are 0-based; the TLA+ sequences here are 1-based,  *)
(*     the helpers PyIndex / PySlice do the translation, negative indices  *)
(*     and slice clamping included.                                        *)
(*   - An Optional[str] is a sequence of length at most one.               *)
(***************************************************************************)
EXTENDS Integers, Sequences, FiniteSets, TLC

(***************************************************************************)
(* Bounds of the model.                                                    *)
(***************************************************************************)
MaxCmds == 3
MaxFrames == 2
MaxContSteps == 6
MaxDeepCmds == 5
MaxBuild == 2

(***************************************************************************)
(* Values.                                                                 *)
(***************************************************************************)
Val(t, v, items) == [t |-> t, v |-> v, items |-> items]
IntV(n) == Val("int", n, <<>>)
BoolV(b) == Val("bool", IF b THEN 1 ELSE 0, <<>>)
NoneV == Val("none", 0, <<>>)
StrV(n) == Val("str", n, <<>>)
CodeV(c) == Val("code", c, <<>>)
FnV(c, defaults) == Val("fn", c, defaults)
TupleV(items) == Val("tuple", 0, items)
ListV(items) == Val("list", 0, items)
FloatV(num, den) == Val("float", num, <<IntV(den)>>)
HostV == Val("host", 0, <<>>)

IsNum(a) == a.t \in {"int", "bool"}

\* bool(value) for the modelled types
Truthy(a) ==
    CASE a.t \in {"int", "bool", "float"} -> a.v # 0
      [] a.t = "none" -> FALSE
      [] a.t \in {"tuple", "list"} -> a.items # <<>>
      [] OTHER -> TRUE

(***************************************************************************)
(* Python sequence indexing and slicing.                                   *)
(***************************************************************************)
Min(a, b) == IF a < b THEN a ELSE b
Max(a, b) == IF a > b THEN a ELSE b

\* seq[i] is defined (does not raise IndexError)
InRange(seq, i) == -Len(seq) <= i /\ i < Len(seq)
\* seq[i], for InRange(seq, i)
PyIndex(seq, i) == IF i < 0 THEN seq[Len(seq) + i + 1] ELSE seq[i + 1]
\* a slice bound clamped as Python clamps it
Clamp(i, n) == IF i < 0 THEN Max(i + n, 0) ELSE Min(i, n)
\* seq[lo:hi]
PySlice(seq, lo, hi) ==
    LET l == Clamp(lo, Len(seq))
        h == Clamp(hi, Len(seq))
    IN  IF l >= h THEN <<>> ELSE SubSeq(seq, l + 1, h)
\* seq[lo:]
PyFrom(seq, lo) == PySlice(seq, lo, Len(seq))
\* del seq[lo:hi]
PyDel(seq, lo, hi) ==
    LET l == Clamp(lo, Len(seq))
        h == Clamp(hi, Len(seq))
    IN  IF l >= h THEN seq ELSE SubSeq(seq, 1, l) \o SubSeq(seq, h + 1, Len(seq))
(***************************************************************************)
(* Python dicts: functions from a finite set of names.                     *)
(***************************************************************************)
EmptyDict == <<>>
\* d[k] = x
DictSet(d, k, x) == [n \in DOMAIN d \cup {k} |-> IF n = k THEN x ELSE d[n]]
\* a | b : the right operand wins on a common key
DictUnion(a, b) ==
    [n \in DOMAIN a \cup DOMAIN b |-> IF n \in DOMAIN b THEN b[n] ELSE a[n]]
\* del d[k]
DictDel(d, k) == [n \in DOMAIN d \ {k} |-> d[n]]
\* dict(zip(keys, values))
RECURSIVE DictZip(_, _)
DictZip(keys, values) ==
    IF keys = <<>> \/ values = <<>> THEN EmptyDict
    ELSE LET n == Min(Len(keys), Len(values))
         IN  DictSet(DictZip(SubSeq(keys, 1, n - 1), SubSeq(values, 1, n - 1)),
                     keys[n], values[n])

(***************************************************************************)
(* Versions (src/lili/compat.py).  A version is a tuple of integers and    *)
(* release-level names; Python orders tuples lexicographically and the     *)
(* release levels as strings.                                              *)
(***************************************************************************)
FIXED_WIDTH_OPCODES == <<3, 6, 0, "alpha", 2>>
\* (3, 0, 0): the marker of magic 3000, PYC_MAGIC_NUMBERS
PY30 == <<3, 0, 0>>
\* tuple(sys.version_info) of a host running the supported opcode set
HostVersion == <<3, 9, 0, "final", 0>>

\* the order of str on the release-level names
LevelRank(s) ==
    CASE s = "alpha" -> 1 [] s = "beta" -> 2 [] s = "candidate" -> 3
      [] s = "final" -> 4

ElemLT(a, b, i) == IF i = 4 THEN LevelRank(a[i]) < LevelRank(b[i]) ELSE a[i] < b[i]

\* a < b on version tuples
VersionLT(a, b) ==
    LET n == Min(Len(a), Len(b))
        diff == {i \in 1..n : a[i] # b[i]}
    IN  IF diff = {} THEN Len(a) < Len(b)
        ELSE LET i == CHOOSE j \in diff : \A k \in diff : j <= k
             IN  ElemLT(a, b, i)

(***************************************************************************)
(* The opcode table of the host's opcode module (CPython 3.9 numbering):   *)
(* opname, opmap, HAVE_ARGUMENT and cmp_op.                                *)
(***************************************************************************)
HAVE_ARGUMENT == 90

OpTable == <<
    <<"POP_TOP", 1>>, <<"ROT_TWO", 2>>, <<"ROT_THREE", 3>>, <<"DUP_TOP", 4>>,
    <<"DUP_TOP_TWO", 5>>, <<"ROT_FOUR", 6>>, <<"NOP", 9>>,
    <<"UNARY_POSITIVE", 10>>, <<"UNARY_NEGATIVE", 11>>, <<"UNARY_NOT", 12>>,
    <<"UNARY_INVERT", 15>>, <<"BINARY_MATRIX_MULTIPLY", 16>>,
    <<"INPLACE_MATRIX_MULTIPLY", 17>>, <<"BINARY_POWER", 19>>,
    <<"BINARY_MULTIPLY", 20>>, <<"BINARY_MODULO", 22>>, <<"BINARY_ADD", 23>>,
    <<"BINARY_SUBTRACT", 24>>, <<"BINARY_SUBSCR", 25>>,
    <<"BINARY_FLOOR_DIVIDE", 26>>, <<"BINARY_TRUE_DIVIDE", 27>>,
    <<"INPLACE_FLOOR_DIVIDE", 28>>, <<"INPLACE_TRUE_DIVIDE", 29>>,
    <<"INPLACE_ADD", 55>>, <<"INPLACE_SUBTRACT", 56>>,
    <<"INPLACE_MULTIPLY", 57>>, <<"INPLACE_MODULO", 59>>,
    <<"INPLACE_POWER", 67>>, <<"RETURN_VALUE", 83>>, <<"STORE_NAME", 90>>,
    <<"UNPACK_SEQUENCE", 92>>, <<"STORE_GLOBAL", 97>>, <<"LOAD_CONST", 100>>,
    <<"LOAD_NAME", 101>>, <<"BUILD_TUPLE", 102>>, <<"BUILD_LIST", 103>>,
    <<"COMPARE_OP", 107>>, <<"JUMP_ABSOLUTE", 113>>, <<"LOAD_GLOBAL", 116>>,
    <<"LOAD_FAST", 124>>, <<"STORE_FAST", 125>>, <<"CALL_FUNCTION", 131>>,
    <<"MAKE_FUNCTION", 132>> >>

\* opcode.opmap[name]
opmap(name) ==
    LET number(table) == table[CHOOSE i \in DOMAIN table : table[i][1] = name][2]
    IN  number(OpTable)
\* opcode.opname[op]: the name of a defined opcode, "<op>" for the others
opname(op) ==
    LET name(table) ==
            IF \E i \in DOMAIN table : table[i][2] = op
            THEN table[CHOOSE i \in DOMAIN table : table[i][2] = op][1]
            ELSE "<op>"
    IN  name(OpTable)
\* opcode.cmp_op
cmp_op == <<"<", "<=", "==", "!=", ">", ">=">>

(***************************************************************************)
(* The host's operators on the modelled values.  An operator application   *)
(* is [exc, val]: exc names the exception it raises ("" for none).  The    *)
(* operand types whose result the model does not compute (strings,         *)
(* floats, sequences, values returned by the host) take their outcome      *)
(* from the input host: "raise", or "value" with the opaque result HostV.  *)
(***************************************************************************)
Ok(v) == [exc |-> "", val |-> v]
Exc(e) == [exc |-> e, val |-> NoneV]
FromHost(host) == IF host = "raise" THEN Exc("HostError") ELSE Ok(HostV)

\* types on which no arithmetic operator is defined
Inert(a) == a.t \in {"none", "fn", "code"}

Abs(n) == IF n < 0 THEN -n ELSE n
RECURSIVE Gcd(_, _)
Gcd(a, b) == IF b = 0 THEN a ELSE Gcd(b, a % b)
\* a // b, for b # 0
FloorDiv(a, b) == IF b > 0 THEN a \div b ELSE (-a) \div (-b)
\* a % b, for b # 0
PyMod(a, b) == a - b * FloorDiv(a, b)
\* a ** b, for b >= 0
RECURSIVE IntPow(_, _)
IntPow(a, b) == IF b = 0 THEN 1 ELSE a * IntPow(a, b - 1)
\* the float num / den, for den # 0
Ratio(num, den) ==
    LET g == Gcd(Abs(num), Abs(den))
        sgn == IF den < 0 THEN -1 ELSE 1
    IN  FloatV(sgn * (num \div g), sgn * (den \div g))

NumOp(op, a, b) ==
    CASE op = "+" -> Ok(IntV(a + b))
      [] op = "-" -> Ok(IntV(a - b))
      [] op = "*" -> Ok(IntV(a * b))
      [] op = "**" -> IF b >= 0 THEN Ok(IntV(IntPow(a, b)))
                      ELSE IF a = 0 THEN Exc("ZeroDivisionError")
                      ELSE Ok(Ratio(1, IntPow(a, -b)))
      [] op = "%" -> IF b = 0 THEN Exc("ZeroDivisionError") ELSE Ok(IntV(PyMod(a, b)))
      [] op = "//" -> IF b = 0 THEN Exc("ZeroDivisionError")
                      ELSE Ok(IntV(FloorDiv(a, b)))
      [] op = "/" -> IF b = 0 THEN Exc("ZeroDivisionError") ELSE Ok(Ratio(a, b))
      [] op = "@" -> Exc("TypeError")
      [] op = "[]" -> Exc("TypeError")

\* a op b
BinOp(op, a, b, host) ==
    CASE IsNum(a) /\ IsNum(b) -> NumOp(op, a.v, b.v)
      [] op = "[]" /\ a.t \in {"tuple", "list"} /\ IsNum(b) ->
            IF InRange(a.items, b.v) THEN Ok(PyIndex(a.items, b.v))
            ELSE Exc("IndexError")
      [] op = "[]" /\ (IsNum(a) \/ Inert(a)) -> Exc("TypeError")
      [] op = "[]" /\ a.t \in {"tuple", "list"} /\ Inert(b) -> Exc("TypeError")
      [] op # "[]" /\ (Inert(a) \/ Inert(b)) -> Exc("TypeError")
      [] OTHER -> FromHost(host)

\* op a
UnaryOp(op, a, host) ==
    CASE op = "not" /\ a.t # "host" -> Ok(BoolV(~Truthy(a)))
      [] op = "+" /\ IsNum(a) -> Ok(IntV(a.v))
      [] op = "-" /\ IsNum(a) -> Ok(IntV(-a.v))
      [] op = "~" /\ IsNum(a) -> Ok(IntV(-a.v - 1))
      [] op # "not" /\ (Inert(a) \/ a.t \in {"tuple", "list", "str"}) ->
            Exc("TypeError")
      [] OTHER -> FromHost(host)

\* left op right, for a comparison operator
Compare(op, l, r, host) ==
    CASE IsNum(l) /\ IsNum(r) ->
            Ok(BoolV(CASE op = "<" -> l.v < r.v [] op = "<=" -> l.v <= r.v
                       [] op = "==" -> l.v = r.v [] op = "!=" -> l.v # r.v
                       [] op = ">" -> l.v > r.v [] op = ">=" -> l.v >= r.v))
      [] op \in {"==", "!="} /\ (l.t = "none" \/ r.t = "none") ->
            Ok(BoolV((l.t = r.t) <=> (op = "==")))
      [] op \notin {"==", "!="} /\ (Inert(l) \/ Inert(r)) -> Exc("TypeError")
      [] OTHER -> FromHost(host)

(***************************************************************************)
(* Code objects.  Codes is the table of the code objects of a session; a   *)
(* value of type code or fn refers to its code object by its index.        *)
(***************************************************************************)
Op(name, arg) == <<opmap(name), arg>>
\* an instruction of the variable-width encoding (little-endian operand)
OldOp(name, arg) ==
    IF opmap(name) < HAVE_ARGUMENT THEN <<opmap(name)>>
    ELSE <<opmap(name), arg % 256, arg \div 256>>

Code(co_code, consts, names, varnames, argcount) ==
    [co_code |-> co_code, co_consts |-> consts, co_names |-> names,
     co_varnames |-> varnames, co_argcount |-> argcount]

\* x = 42 + 7
MainCode ==
    Code(Op("LOAD_CONST", 0) \o Op("LOAD_CONST", 1) \o Op("BINARY_ADD", 0)
            \o Op("STORE_NAME", 0),
         <<IntV(42), IntV(7)>>, <<"x">>, <<>>, 0)
\* def f(a, b): c = a; x
FCode ==
    Code(Op("LOAD_FAST", 0) \o Op("STORE_FAST", 2) \o Op("LOAD_GLOBAL", 0),
         <<NoneV>>, <<"x">>, <<"a", "b", "c">>, 2)
\* def g(a): t = a
GCode ==
    Code(Op("LOAD_FAST", 0) \o Op("STORE_FAST", 1),
         <<NoneV>>, <<>>, <<"a", "t">>, 1)
\* def f(a, b=9): ...; f(1)
CallerCode ==
    Code(Op("LOAD_CONST", 3) \o Op("LOAD_CONST", 0) \o Op("LOAD_CONST", 1)
            \o Op("MAKE_FUNCTION", 1) \o Op("LOAD_CONST", 2)
            \o Op("CALL_FUNCTION", 1) \o Op("POP_TOP", 0),
         <<CodeV(2), StrV(1), IntV(1), TupleV(<<IntV(9)>>)>>, <<>>, <<>>, 0)
\* a program in the variable-width encoding
OldCode ==
    Code(OldOp("NOP", 0) \o OldOp("LOAD_CONST", 0) \o OldOp("DUP_TOP", 0)
            \o OldOp("STORE_NAME", 0),
         <<IntV(5)>>, <<"x">>, <<>>, 0)
\* while True: pass
LoopCode ==
    Code(Op("NOP", 0) \o Op("JUMP_ABSOLUTE", 0), <<>>, <<>>, <<>>, 0)

\* the opcodes the programs below exercise one by one: every opcode of the
\* table (RETURN_VALUE has no handler) and one byte that names no opcode
ZooOps == [i \in 1..(Len(OpTable) + 1) |->
              IF i <= Len(OpTable) THEN OpTable[i][2] ELSE 0]
\* two operands, then the opcode with operand 1
ZooCode(op) ==
    Code(Op("LOAD_CONST", 0) \o Op("LOAD_CONST", 1) \o <<op, 1>> \o Op("NOP", 0),
         <<IntV(6), IntV(2)>>, <<"x", "y">>, <<"a", "b">>, 0)

\* BUILD_TUPLE n and BUILD_LIST n for n in 0..MaxBuild, on the stack the
\* session has pushed
BuildCode(i) ==
    Code(Op(IF i <= MaxBuild THEN "BUILD_TUPLE" ELSE "BUILD_LIST",
            i % (MaxBuild + 1)) \o Op("NOP", 0), <<>>, <<>>, <<>>, 0)

FixedCodes == <<MainCode, FCode, GCode, CallerCode, OldCode, LoopCode>>
Codes == FixedCodes \o [i \in DOMAIN ZooOps |-> ZooCode(ZooOps[i])]
            \o [i \in 1..(2 * MaxBuild + 2) |-> BuildCode(i - 1)]

(***************************************************************************)
(* CrossVM: instruction decoding.  self is a frame with the contents of    *)
(* its containers: [code, co, version, counter, stack, locals, globals,   *)
(* builtins, exc]; co is the code object that code refers to, exc names    *)
(* the exception raised ("" for none).                                     *)
(***************************************************************************)
co_code(self) == self.co.co_code

\* int.from_bytes(bytes, "little")
RECURSIVE from_bytes(_)
from_bytes(bytes) ==
    IF bytes = <<>> THEN 0 ELSE bytes[1] + 256 * from_bytes(Tail(bytes))

\* CrossVM.current_opcode: [exc, op, arg]
current_opcode(self) ==
    LET co == co_code(self)
        c == self.counter
    IN  IF ~InRange(co, c) THEN [exc |-> "IndexError", op |-> 0, arg |-> 0]
        ELSE LET op == PyIndex(co, c)
             IN  IF VersionLT(self.version, FIXED_WIDTH_OPCODES)
                 THEN IF op < HAVE_ARGUMENT
                      THEN [exc |-> "", op |-> op, arg |-> 0]
                      ELSE [exc |-> "", op |-> op,
                            arg |-> from_bytes(PySlice(co, c + 1, c + 3))]
                 ELSE IF ~InRange(co, c + 1)
                      THEN [exc |-> "IndexError", op |-> 0, arg |-> 0]
                      ELSE [exc |-> "", op |-> op, arg |-> PyIndex(co, c + 1)]

\* next_opcode that takes every instruction of every version to be two
\* bytes wide
next_opcode_fixed(self, i) ==
    IF ~InRange(co_code(self), i) THEN [exc |-> "IndexError", val |-> 0]
    ELSE [exc |-> "", val |-> i + 2]

\* CrossVM.next_opcode(i): [exc, val]
next_opcode(self, i) ==
    LET co == co_code(self)
    IN  IF ~InRange(co, i) THEN [exc |-> "IndexError", val |-> 0]
        ELSE LET op == PyIndex(co, i)
             IN  IF VersionLT(self.version, FIXED_WIDTH_OPCODES)
                 THEN IF op < HAVE_ARGUMENT THEN [exc |-> "", val |-> i + 1]
                      ELSE [exc |-> "", val |-> i + 3]
                 ELSE [exc |-> "", val |-> i + 2]

\* CrossVM.opcodes: what the generator yields from address i on, and the
\* exception that ends it, if one does: [exc, yielded], an element of
\* yielded being <<address, opcode, operand>>
RECURSIVE opcodes_from(_, _)
opcodes_from(self, i) ==
    LET co == co_code(self)
        yield(item, rest) == [rest EXCEPT !.yielded = <<item>> \o @]
    IN  IF i >= Len(co) THEN [exc |-> "", yielded |-> <<>>]
        ELSE IF VersionLT(self.version, FIXED_WIDTH_OPCODES)
        THEN IF PyIndex(co, i) < HAVE_ARGUMENT
             THEN yield(<<i, PyIndex(co, i), 0>>, opcodes_from(self, i + 1))
             ELSE yield(<<i, PyIndex(co, i), from_bytes(PySlice(co, i + 1, i + 3))>>,
                        opcodes_from(self, i + 3))
        ELSE IF ~InRange(co, i + 1) THEN [exc |-> "IndexError", yielded |-> <<>>]
        ELSE yield(<<i, PyIndex(co, i), PyIndex(co, i + 1)>>,
                   opcodes_from(self, i + 2))

opcodes(self) == opcodes_from(self, 0)

(***************************************************************************)
(* CrossVM: the opcode handlers.  A handler maps self to self after the    *)
(* handler, with exc set when it raises; the containers then hold what     *)
(* the handler had done to them before the exception.                      *)
(***************************************************************************)
Raise(self, e) == [self EXCEPT !.exc = e]
WithStack(self, st) == [self EXCEPT !.stack = st]
Depth(self) == Len(self.stack)
\* self.stack[:-n], for n <= Depth(self)
Below(self, n) == SubSeq(self.stack, 1, Depth(self) - n)
\* self.stack[-n], for 1 <= n <= Depth(self)
Peek(self, n) == self.stack[Depth(self) - n + 1]

pop_top(self, arg, unsafe, host) ==
    IF Depth(self) = 0 THEN Raise(self, "IndexError")
    ELSE WithStack(self, Below(self, 1))

\* self.stack[-2:] = self.stack[-1], self.stack[-2]
rot_two(self, arg, unsafe, host) ==
    IF Depth(self) < 2 THEN Raise(self, "IndexError")
    ELSE WithStack(self, Below(self, 2) \o <<Peek(self, 1), Peek(self, 2)>>)

\* self.stack[-3:] = [self.stack[-1], *self.stack[-3:-1]]
rot_three(self, arg, unsafe, host) ==
    IF Depth(self) = 0 THEN Raise(self, "IndexError")
    ELSE WithStack(self, SubSeq(self.stack, 1, Max(Depth(self) - 3, 0))
                           \o <<Peek(self, 1)>> \o PySlice(self.stack, -3, -1))

\* self.stack[-4:] = [self.stack[-1], *self.stack[-4:-1]]
rot_four(self, arg, unsafe, host) ==
    IF Depth(self) = 0 THEN Raise(self, "IndexError")
    ELSE WithStack(self, SubSeq(self.stack, 1, Max(Depth(self) - 4, 0))
                           \o <<Peek(self, 1)>> \o PySlice(self.stack, -4, -1))

dup_top(self, arg, unsafe, host) ==
    IF Depth(self) = 0 THEN Raise(self, "IndexError")
    ELSE WithStack(self, Append(self.stack, Peek(self, 1)))

\* self.stack.extend(self.stack[-2:])
dup_top_two(self, arg, unsafe, host) ==
    WithStack(self, self.stack \o PyFrom(self.stack, -2))

nop(self, arg, unsafe, host) == self

\* self.stack.append(op self.stack.pop())
unary(op, self, host) ==
    IF Depth(self) = 0 THEN Raise(self, "IndexError")
    ELSE LET push(r) ==
                 IF r.exc # "" THEN Raise(WithStack(self, Below(self, 1)), r.exc)
                 ELSE WithStack(self, Append(Below(self, 1), r.val))
         IN  push(UnaryOp(op, Peek(self, 1), host))

\* self.stack.append(self.stack.pop(-2) op self.stack.pop())
binary(op, self, host) ==
    IF Depth(self) < 2 THEN Raise(self, "IndexError")
    ELSE LET push(r) ==
                 IF r.exc # "" THEN Raise(WithStack(self, Below(self, 2)), r.exc)
                 ELSE WithStack(self, Append(Below(self, 2), r.val))
         IN  push(BinOp(op, Peek(self, 2), Peek(self, 1), host))

\* self.stack[-2] op= self.stack[-1]; self.stack.pop()
inplace(op, self, host) ==
    IF Depth(self) < 2 THEN Raise(self, "IndexError")
    ELSE LET assign(r) ==
                 IF r.exc # "" THEN Raise(self, r.exc)
                 ELSE WithStack(self, Append(Below(self, 2), r.val))
         IN  assign(BinOp(op, Peek(self, 2), Peek(self, 1), host))

compare_op(self, arg, unsafe, host) ==
    IF ~InRange(cmp_op, arg) THEN Raise(self, "IndexError")
    ELSE IF Depth(self) = 0 THEN Raise(self, "IndexError")
    ELSE IF Depth(self) = 1 THEN Raise(WithStack(self, <<>>), "IndexError")
    ELSE LET push(r) ==
                 IF r.exc # "" THEN Raise(WithStack(self, Below(self, 2)), r.exc)
                 ELSE WithStack(self, Append(Below(self, 2), r.val))
         IN  push(Compare(PyIndex(cmp_op, arg), Peek(self, 2), Peek(self, 1), host))

co_consts(self) == self.co.co_consts
co_names(self) == self.co.co_names
co_varnames(self) == self.co.co_varnames

\* load_const that pushes the first constant whatever its operand
load_const_first(self, arg, unsafe, host) ==
    IF ~InRange(co_consts(self), arg) THEN Raise(self, "IndexError")
    ELSE WithStack(self, Append(self.stack, PyIndex(co_consts(self), 0)))

load_const(self, arg, unsafe, host) ==
    IF ~InRange(co_consts(self), arg) THEN Raise(self, "IndexError")
    ELSE WithStack(self, Append(self.stack, PyIndex(co_consts(self), arg)))

load_name(self, arg, unsafe, host) ==
    IF ~InRange(co_names(self), arg) THEN Raise(self, "IndexError")
    ELSE LET name == PyIndex(co_names(self), arg)
         IN  CASE name \in DOMAIN self.locals ->
                    WithStack(self, Append(self.stack, self.locals[name]))
               [] name \notin DOMAIN self.locals /\ name \in DOMAIN self.globals ->
                    WithStack(self, Append(self.stack, self.globals[name]))
               [] name \notin DOMAIN self.locals \cup DOMAIN self.globals
                  /\ name \in DOMAIN self.builtins ->
                    WithStack(self, Append(self.stack, self.builtins[name]))
               [] OTHER -> Raise(self, "NameError")

\* self.locals[name] = self.stack.pop(), name from the given table
store_local(self, names, arg) ==
    IF ~InRange(names, arg) THEN Raise(self, "IndexError")
    ELSE IF Depth(self) = 0 THEN Raise(self, "IndexError")
    ELSE [self EXCEPT !.stack = Below(self, 1),
                      !.locals = DictSet(@, PyIndex(names, arg), Peek(self, 1))]

store_name(self, arg, unsafe, host) == store_local(self, co_names(self), arg)

load_fast(self, arg, unsafe, host) ==
    IF ~InRange(co_varnames(self), arg) THEN Raise(self, "IndexError")
    ELSE LET name == PyIndex(co_varnames(self), arg)
         IN  IF name \in DOMAIN self.locals
             THEN WithStack(self, Append(self.stack, self.locals[name]))
             ELSE Raise(self, "NameError")

store_fast(self, arg, unsafe, host) == store_local(self, co_varnames(self), arg)

load_global(self, arg, unsafe, host) ==
    IF ~InRange(co_names(self), arg) THEN Raise(self, "IndexError")
    ELSE LET name == PyIndex(co_names(self), arg)
         IN  CASE name \in DOMAIN self.globals ->
                    WithStack(self, Append(self.stack, self.globals[name]))
               [] name \notin DOMAIN self.globals /\ name \in DOMAIN self.builtins ->
                    WithStack(self, Append(self.stack, self.builtins[name]))
               [] OTHER -> Raise(self, "NameError")

store_global(self, arg, unsafe, host) ==
    IF ~InRange(co_names(self), arg) THEN Raise(self, "IndexError")
    ELSE IF Depth(self) = 0 THEN Raise(self, "IndexError")
    ELSE [self EXCEPT !.stack = Below(self, 1),
                      !.globals = DictSet(@, PyIndex(co_names(self), arg),
                                          Peek(self, 1))]

\* self.stack.append(seq(self.stack[-arg:])); del self.stack[-arg - 1 : -1]
build_seq(self, arg, tag) ==
    LET pushed == Append(self.stack, Val(tag, 0, PyFrom(self.stack, -arg)))
    IN  WithStack(self, PyDel(pushed, -arg - 1, -1))

build_tuple(self, arg, unsafe, host) == build_seq(self, arg, "tuple")
build_list(self, arg, unsafe, host) == build_seq(self, arg, "list")

\* self.stack.extend([*self.stack.pop()][:arg]); the characters of a string
\* and the elements of a host value are one opaque element
unpack_sequence(self, arg, unsafe, host) ==
    IF Depth(self) = 0 THEN Raise(self, "IndexError")
    ELSE LET top == Peek(self, 1)
             rest == WithStack(self, Below(self, 1))
         IN  CASE top.t \in {"tuple", "list"} ->
                    WithStack(self, rest.stack \o PySlice(top.items, 0, arg))
               [] IsNum(top) \/ Inert(top) \/ top.t = "float" ->
                    Raise(rest, "TypeError")
               [] OTHER ->
                    IF host = "raise" THEN Raise(rest, "HostError")
                    ELSE WithStack(self, rest.stack \o PySlice(<<HostV>>, 0, arg))

\* arg & (1 << bit) # 0
Bit(arg, bit) == (arg \div (2 ^ bit)) % 2 = 1

make_function(self, arg, unsafe, host) ==
    LET flags == <<Bit(arg, 3), Bit(arg, 2), Bit(arg, 1), Bit(arg, 0)>>
        \* position below the top of the value popped for each flag, 0: none
        Pos(k) == IF flags[k]
                  THEN 2 + Cardinality({j \in 1..k : flags[j]}) ELSE 0
        pops == 2 + Cardinality({j \in 1..4 : flags[j]})
        Popped(k) == IF Pos(k) = 0 THEN NoneV ELSE Peek(self, Pos(k))
    IN  IF Depth(self) < pops THEN Raise(WithStack(self, <<>>), "IndexError")
        ELSE LET name == Peek(self, 1)
                 func_code == Peek(self, 2)
                 cells == Popped(1)
                 annotations == Popped(2)
                 kwarg_defaults == Popped(3)
                 arg_defaults == Popped(4)
                 rest == WithStack(self, Below(self, pops))
             IN  CASE \E v \in {name, func_code, cells, annotations,
                                kwarg_defaults, arg_defaults} : v.t = "host" ->
                        IF host = "raise" THEN Raise(rest, "HostError")
                        ELSE WithStack(self, Append(rest.stack, HostV))
                   \* types.FunctionType(func_code, globals, name, defaults, cells)
                   [] func_code.t # "code" \/ name.t \notin {"str", "none"}
                      \/ arg_defaults.t \notin {"tuple", "none"}
                      \/ cells.t \notin {"tuple", "none"} -> Raise(rest, "TypeError")
                   [] cells.t = "tuple" /\ cells.items # <<>> ->
                        Raise(rest, "ValueError")
                   \* dict(zip(annotations[::2], annotations[1::2]))
                   [] Truthy(annotations) /\ annotations.t \notin {"tuple", "list", "str"} ->
                        Raise(rest, "TypeError")
                   \* fn.__kwdefaults__ = kwarg_defaults: no modelled value is a dict
                   [] Truthy(kwarg_defaults) -> Raise(rest, "TypeError")
                   [] OTHER ->
                        WithStack(self, Append(rest.stack,
                                               FnV(func_code.v, arg_defaults.items)))

\* arguments.extend(defaults[co_argcount - len(defaults) - len(arguments):])
extend_defaults(arguments, fn) ==
    LET defaults == fn.items
    IN  arguments \o PyFrom(defaults, Codes[fn.v].co_argcount - Len(defaults)
                                        - Len(arguments))

\* the call fn(*arguments) itself is the host's
call_function(self, arg, unsafe, host) ==
    LET taken == IF arg # 0 THEN WithStack(self, PyDel(self.stack, -arg, Depth(self)))
                 ELSE self
    IN  IF Depth(taken) = 0 THEN Raise(taken, "IndexError")
        ELSE LET fn == Peek(taken, 1)
                 rest == WithStack(self, Below(taken, 1))
             IN  CASE fn.t \in {"fn", "host"} ->
                        IF host = "raise" THEN Raise(rest, "HostError")
                        ELSE WithStack(self, Append(rest.stack, HostV))
                   [] OTHER -> Raise(rest, "TypeError")

jump_absolute(self, arg, unsafe, host) == [self EXCEPT !.counter = arg * 2 - 2]

(***************************************************************************)
(* _WashningMashing: dispatch, step, breakpoints.                          *)
(***************************************************************************)
\* the handlers decorated with @_unsafe
UnsafeNames ==
    {"UNARY_POSITIVE", "UNARY_NEGATIVE", "UNARY_NOT", "UNARY_INVERT",
     "BINARY_MATRIX_MULTIPLY", "INPLACE_MATRIX_MULTIPLY", "BINARY_POWER",
     "INPLACE_POWER", "BINARY_MULTIPLY", "INPLACE_MULTIPLY", "BINARY_MODULO",
     "INPLACE_MODULO", "BINARY_ADD", "INPLACE_ADD", "BINARY_SUBTRACT",
     "INPLACE_SUBTRACT", "BINARY_FLOOR_DIVIDE", "INPLACE_FLOOR_DIVIDE",
     "BINARY_TRUE_DIVIDE", "INPLACE_TRUE_DIVIDE", "BINARY_SUBSCR",
     "COMPARE_OP", "CALL_FUNCTION", "JUMP_ABSOLUTE"}

\* the handlers without the decorator
SafeNames ==
    {"POP_TOP", "ROT_TWO", "ROT_THREE", "ROT_FOUR", "DUP_TOP", "DUP_TOP_TWO",
     "NOP", "LOAD_CONST", "LOAD_NAME", "STORE_NAME", "LOAD_FAST", "STORE_FAST",
     "LOAD_GLOBAL", "STORE_GLOBAL", "BUILD_TUPLE", "BUILD_LIST",
     "UNPACK_SEQUENCE", "MAKE_FUNCTION"}

\* the operator each handler applies: unary_positive .. unary_invert
unary_operators ==
    [UNARY_POSITIVE |-> "+", UNARY_NEGATIVE |-> "-", UNARY_NOT |-> "not",
     UNARY_INVERT |-> "~"]
\* binary_matrix_multiply .. binary_subscr
binary_operators ==
    [BINARY_MATRIX_MULTIPLY |-> "@", BINARY_POWER |-> "**",
     BINARY_MULTIPLY |-> "*", BINARY_MODULO |-> "%", BINARY_ADD |-> "+",
     BINARY_SUBTRACT |-> "-", BINARY_FLOOR_DIVIDE |-> "//",
     BINARY_TRUE_DIVIDE |-> "/", BINARY_SUBSCR |-> "[]"]
\* inplace_matrix_multiply .. inplace_true_divide; inplace_multiply applies
\* **=, as its source does
inplace_operators ==
    [INPLACE_MATRIX_MULTIPLY |-> "@", INPLACE_POWER |-> "**",
     INPLACE_MULTIPLY |-> "**", INPLACE_MODULO |-> "%", INPLACE_ADD |-> "+",
     INPLACE_SUBTRACT |-> "-", INPLACE_FLOOR_DIVIDE |-> "//",
     INPLACE_TRUE_DIVIDE |-> "/"]

\* the body of the handler registered for op_name by @_handles
body(op_name, self, arg, unsafe, host) ==
    CASE op_name = "POP_TOP" -> pop_top(self, arg, unsafe, host)
      [] op_name = "ROT_TWO" -> rot_two(self, arg, unsafe, host)
      [] op_name = "ROT_THREE" -> rot_three(self, arg, unsafe, host)
      [] op_name = "ROT_FOUR" -> rot_four(self, arg, unsafe, host)
      [] op_name = "DUP_TOP" -> dup_top(self, arg, unsafe, host)
      [] op_name = "DUP_TOP_TWO" -> dup_top_two(self, arg, unsafe, host)
      [] op_name = "NOP" -> nop(self, arg, unsafe, host)
      [] op_name \in DOMAIN unary_operators ->
            unary(unary_operators[op_name], self, host)
      [] op_name \in DOMAIN binary_operators ->
            binary(binary_operators[op_name], self, host)
      [] op_name \in DOMAIN inplace_operators ->
            inplace(inplace_operators[op_name], self, host)
      [] op_name = "COMPARE_OP" -> compare_op(self, arg, unsafe, host)
      [] op_name = "LOAD_CONST" -> load_const(self, arg, unsafe, host)
      [] op_name = "LOAD_NAME" -> load_name(self, arg, unsafe, host)
      [] op_name = "STORE_NAME" -> store_name(self, arg, unsafe, host)
      [] op_name = "LOAD_FAST" -> load_fast(self, arg, unsafe, host)
      [] op_name = "STORE_FAST" -> store_fast(self, arg, unsafe, host)
      [] op_name = "LOAD_GLOBAL" -> load_global(self, arg, unsafe, host)
      [] op_name = "STORE_GLOBAL" -> store_global(self, arg, unsafe, host)
      [] op_name = "BUILD_TUPLE" -> build_tuple(self, arg, unsafe, host)
      [] op_name = "BUILD_LIST" -> build_list(self, arg, unsafe, host)
      [] op_name = "UNPACK_SEQUENCE" -> unpack_sequence(self, arg, unsafe, host)
      [] op_name = "MAKE_FUNCTION" -> make_function(self, arg, unsafe, host)
      [] op_name = "CALL_FUNCTION" -> call_function(self, arg, unsafe, host)
      [] op_name = "JUMP_ABSOLUTE" -> jump_absolute(self, arg, unsafe, host)

\* mutant: the wrapper forgets the test of the flag
_unsafe_unchecked(self, unsafe, fn) == fn

\* mutant: the wrapper tests the flag the wrong way round
_unsafe_inverted(self, unsafe, fn) ==
    IF unsafe THEN Raise(self, "UnsafeOperation") ELSE fn

\* the wrapper of @_unsafe; fn is what the wrapped handler does when called
_unsafe(self, unsafe, fn) ==
    IF ~unsafe THEN Raise(self, "UnsafeOperation") ELSE fn

\* cls._handlers: the names with a handler, and the handler's call
_handlers == SafeNames \cup UnsafeNames
handler(op_name, self, arg, unsafe, host) ==
    LET registered(fn) ==
            IF op_name \in UnsafeNames THEN _unsafe(self, unsafe, fn) ELSE fn
    IN  registered(body(op_name, self, arg, unsafe, host))

\* Optional[str]
NoCond == <<>>
Cond(expr) == <<expr>>
\* `if condition := ...`: the condition is a non-empty string
HasCond(c) == c # NoCond /\ c[1] # ""

\* evaluate with the extra bindings under the scopes of the frame
evaluate_ctx_last(self, expr, ctx) ==
    LET merged == DictUnion(ctx, DictUnion(DictUnion(self.builtins, self.globals),
                                           self.locals))
    IN  IF expr \in DOMAIN merged THEN Ok(merged[expr]) ELSE Exc("NameError")

\* eval(expr, self.builtins | self.globals | self.locals | ctx), for the
\* expressions that are a single name: [exc, val]
evaluate(self, expr, ctx) ==
    LET merged == DictUnion(DictUnion(DictUnion(self.builtins, self.globals),
                                      self.locals), ctx)
    IN  IF expr \in DOMAIN merged THEN Ok(merged[expr]) ELSE Exc("NameError")

\* the result of step: self after it, and what the caller gets:
\* kind "none" (returns None), "fault" (returns the fault exc),
\* "raise" (the exception exc propagates to the caller)
Returned(self, kind, exc) == [self |-> [self EXCEPT !.exc = ""], kind |-> kind, exc |-> exc]

\* mutant: the counter is advanced whether or not the handler raised
step_always_advances(self, unsafe, host) ==
    LET advance(after, next) ==
            IF next.exc # "" THEN Returned(after, "raise", next.exc)
            ELSE IF after.exc # ""
            THEN Returned([after EXCEPT !.counter = next.val], "fault", after.exc)
            ELSE Returned([after EXCEPT !.counter = next.val], "none", "")
        finish(after) == advance(after, next_opcode(after, after.counter))
        gate(op_name, arg, ignored, guarded, guard) ==
            IF guarded /\ guard.exc # "" THEN Returned(self, "raise", guard.exc)
            ELSE IF op_name \notin _handlers
            THEN Returned(self, "fault", "unknown opcode")
            ELSE finish(handler(op_name, self, arg,
                                IF guarded THEN Truthy(guard.val)
                                ELSE IF ignored THEN TRUE ELSE unsafe,
                                host))
        ctx(arg) == [n \in {"arg", "stack"} |->
                        IF n = "arg" THEN IntV(arg) ELSE ListV(self.stack)]
        lookup(op_name, arg, ignored) ==
            gate(op_name, arg, ignored,
                 ignored /\ HasCond(self.unsafe_ignores[op_name]),
                 evaluate(self, self.unsafe_ignores[op_name][1], ctx(arg)))
        dispatch(op_name, arg) ==
            lookup(op_name, arg, op_name \in DOMAIN self.unsafe_ignores)
        decoded(cur) ==
            IF cur.exc # "" THEN Returned(self, "raise", cur.exc)
            ELSE dispatch(opname(cur.op), cur.arg)
    IN  decoded(current_opcode(self))

\* step in which an allowlist entry never takes away the unsafe permission
\* the caller gave
step_flag_wins(self, unsafe, host) ==
    LET advance(after, next) ==
            IF after.exc # "" THEN Returned(after, "fault", after.exc)
            ELSE IF next.exc # "" THEN Returned(after, "raise", next.exc)
            ELSE Returned([after EXCEPT !.counter = next.val], "none", "")
        finish(after) == advance(after, next_opcode(after, after.counter))
        gate(op_name, arg, ignored, guarded, guard) ==
            IF guarded /\ guard.exc # "" THEN Returned(self, "raise", guard.exc)
            ELSE IF op_name \notin _handlers
            THEN Returned(self, "fault", "unknown opcode")
            ELSE finish(handler(op_name, self, arg,
                                IF unsafe THEN TRUE
                                ELSE IF guarded THEN Truthy(guard.val)
                                ELSE ignored,
                                host))
        ctx(arg) == [n \in {"arg", "stack"} |->
                        IF n = "arg" THEN IntV(arg) ELSE ListV(self.stack)]
        lookup(op_name, arg, ignored) ==
            gate(op_name, arg, ignored,
                 ignored /\ HasCond(self.unsafe_ignores[op_name]),
                 evaluate(self, self.unsafe_ignores[op_name][1], ctx(arg)))
        dispatch(op_name, arg) ==
            lookup(op_name, arg, op_name \in DOMAIN self.unsafe_ignores)
        decoded(cur) ==
            IF cur.exc # "" THEN Returned(self, "raise", cur.exc)
            ELSE dispatch(opname(cur.op), cur.arg)
    IN  decoded(current_opcode(self))

\* step: decoded is the body from the instruction read by current_opcode,
\* dispatch .. gate the allowlist test, finish and advance what follows the
\* call of the handler
step(self, unsafe, host) ==
    LET advance(after, next) ==
            IF after.exc # "" THEN Returned(after, "fault", after.exc)
            ELSE IF next.exc # "" THEN Returned(after, "raise", next.exc)
            ELSE Returned([after EXCEPT !.counter = next.val], "none", "")
        finish(after) == advance(after, next_opcode(after, after.counter))
        gate(op_name, arg, ignored, guarded, guard) ==
            IF guarded /\ guard.exc # "" THEN Returned(self, "raise", guard.exc)
            ELSE IF op_name \notin _handlers
            THEN Returned(self, "fault", "unknown opcode")
            ELSE finish(handler(op_name, self, arg,
                                IF guarded THEN Truthy(guard.val)
                                ELSE IF ignored THEN TRUE ELSE unsafe,
                                host))
        ctx(arg) == [n \in {"arg", "stack"} |->
                        IF n = "arg" THEN IntV(arg) ELSE ListV(self.stack)]
        lookup(op_name, arg, ignored) ==
            gate(op_name, arg, ignored,
                 ignored /\ HasCond(self.unsafe_ignores[op_name]),
                 evaluate(self, self.unsafe_ignores[op_name][1], ctx(arg)))
        dispatch(op_name, arg) ==
            lookup(op_name, arg, op_name \in DOMAIN self.unsafe_ignores)
        decoded(cur) ==
            IF cur.exc # "" THEN Returned(self, "raise", cur.exc)
            ELSE dispatch(opname(cur.op), cur.arg)
    IN  decoded(current_opcode(self))

\* step with a KeyboardInterrupt raised after the handler has returned or
\* raised (line 101) and before the counter is assigned (line 106): the
\* interrupt is no Exception, so it is not caught and leaves step
step_interrupted(self, unsafe, host) ==
    LET finish(after) == Returned(after, "raise", "KeyboardInterrupt")
        gate(op_name, arg, ignored, guarded, guard) ==
            IF guarded /\ guard.exc # "" THEN Returned(self, "raise", guard.exc)
            ELSE IF op_name \notin _handlers
            THEN Returned(self, "fault", "unknown opcode")
            ELSE finish(handler(op_name, self, arg,
                                IF guarded THEN Truthy(guard.val)
                                ELSE IF ignored THEN TRUE ELSE unsafe,
                                host))
        ctx(arg) == [n \in {"arg", "stack"} |->
                        IF n = "arg" THEN IntV(arg) ELSE ListV(self.stack)]
        lookup(op_name, arg, ignored) ==
            gate(op_name, arg, ignored,
                 ignored /\ HasCond(self.unsafe_ignores[op_name]),
                 evaluate(self, self.unsafe_ignores[op_name][1], ctx(arg)))
        dispatch(op_name, arg) ==
            lookup(op_name, arg, op_name \in DOMAIN self.unsafe_ignores)
        decoded(cur) ==
            IF cur.exc # "" THEN Returned(self, "raise", cur.exc)
            ELSE dispatch(opname(cur.op), cur.arg)
    IN  decoded(current_opcode(self))

\* mutant: the condition of a breakpoint is not looked at
is_breakpoint_unconditional(self, addr) == addr \in DOMAIN self.breakpoints

is_breakpoint(self, addr) ==
    IF addr \notin DOMAIN self.breakpoints THEN FALSE
    ELSE IF HasCond(self.breakpoints[addr])
    THEN LET r == evaluate(self, self.breakpoints[addr][1], EmptyDict)
         IN  IF r.exc # "" THEN FALSE ELSE Truthy(r.val)
    ELSE TRUE

\* mutant: a registered address is removed whatever the condition
toggle_breakpoint_removes(breakpoints, bp, condition) ==
    IF bp \in DOMAIN breakpoints
    THEN [a \in DOMAIN breakpoints \ {bp} |-> breakpoints[a]]
    ELSE [a \in DOMAIN breakpoints \cup {bp} |->
             IF a = bp THEN condition ELSE breakpoints[a]]

\* the breakpoint table after toggle_breakpoint(bp, condition)
toggle_breakpoint(breakpoints, bp, condition) ==
    IF bp \in DOMAIN breakpoints /\ condition = NoCond
    THEN [a \in DOMAIN breakpoints \ {bp} |-> breakpoints[a]]
    ELSE [a \in DOMAIN breakpoints \cup {bp} |->
             IF a = bp THEN condition ELSE breakpoints[a]]

\* mutant: a cont that goes on after a step that did not return None
cont_returns_past_faults(r) ==
    IF r.kind = "none" /\ is_breakpoint(r.self, r.self.counter)
    THEN [stop |-> TRUE, kind |-> "none"]
    ELSE [stop |-> FALSE, kind |-> "none"]

\* the loop body of cont after its step returned: whether cont returns, and
\* what ("raise": the exception of the step propagates through cont)
cont_returns(r) ==
    IF r.kind # "none" THEN [stop |-> TRUE, kind |-> r.kind]
    ELSE IF is_breakpoint(r.self, r.self.counter)
    THEN [stop |-> TRUE, kind |-> "none"]
    ELSE [stop |-> FALSE, kind |-> "none"]

\* call that takes the function and its arguments off the stack before it
\* looks at the function
call_pops_first(self, argc) ==
    LET failed(e, stack) == [exc |-> e, stack |-> stack, code |-> 0,
                             locals |-> EmptyDict, globals |-> EmptyDict]
    IN  IF ~InRange(self.stack, -argc - 1) THEN failed("IndexError", self.stack)
        ELSE LET arguments == PyFrom(self.stack, -argc)
                 kept == IF argc # 0 THEN PyDel(self.stack, -argc, Len(self.stack))
                         ELSE self.stack
                 fn == kept[Len(kept)]
                 bound == extend_defaults(arguments, fn)
             IN  IF fn.t # "fn"
                 THEN failed("TypeError", SubSeq(kept, 1, Len(kept) - 1))
                 ELSE [exc |-> "",
                       stack |-> SubSeq(kept, 1, Len(kept) - 1),
                       code |-> fn.v,
                       locals |-> DictZip(Codes[fn.v].co_varnames, bound),
                       globals |-> DictUnion(self.locals, self.globals)]

\* call that leaves the function on the caller's stack
call_keeps_function(self, argc) ==
    LET failed(e) == [exc |-> e, stack |-> self.stack, code |-> 0,
                      locals |-> EmptyDict, globals |-> EmptyDict]
    IN  IF ~InRange(self.stack, -argc - 1) THEN failed("IndexError")
        ELSE IF PyIndex(self.stack, -argc - 1).t # "fn" THEN failed("TypeError")
        ELSE LET arguments == PyFrom(self.stack, -argc)
                 kept == IF argc # 0 THEN PyDel(self.stack, -argc, Len(self.stack))
                         ELSE self.stack
                 fn == kept[Len(kept)]
                 bound == extend_defaults(arguments, fn)
             IN  [exc |-> "",
                  stack |-> kept,
                  code |-> fn.v,
                  locals |-> DictZip(Codes[fn.v].co_varnames, bound),
                  globals |-> DictUnion(self.locals, self.globals)]

(***************************************************************************)
(* _WashningMashing.call: the caller's stack after it and the locals and   *)
(* globals handed to the child's constructor.                              *)
(***************************************************************************)
call(self, argc) ==
    LET failed(e) == [exc |-> e, stack |-> self.stack, code |-> 0,
                      locals |-> EmptyDict, globals |-> EmptyDict]
    IN  IF ~InRange(self.stack, -argc - 1) THEN failed("IndexError")
        ELSE IF PyIndex(self.stack, -argc - 1).t # "fn" THEN failed("TypeError")
        ELSE LET arguments == PyFrom(self.stack, -argc)
                 kept == IF argc # 0 THEN PyDel(self.stack, -argc, Len(self.stack))
                         ELSE self.stack
                 fn == kept[Len(kept)]
                 bound == extend_defaults(arguments, fn)
             IN  [exc |-> "",
                  stack |-> SubSeq(kept, 1, Len(kept) - 1),
                  code |-> fn.v,
                  locals |-> DictZip(Codes[fn.v].co_varnames, bound),
                  globals |-> DictUnion(self.locals, self.globals)]

\* return_call that pops the stack of a frame without a parent too
return_call_pops_root(self, has_parent) ==
    IF self.stack = <<>>
    THEN [exc |-> "IndexError", stack |-> self.stack, pushed |-> <<>>]
    ELSE [exc |-> "", stack |-> Below(self, 1), pushed |-> <<Peek(self, 1)>>]

\* return_call that hands the top of the stack over without popping it
return_call_keeps_top(self, has_parent) ==
    IF ~has_parent
    THEN [exc |-> "", stack |-> self.stack, pushed |-> <<>>]
    ELSE IF self.stack = <<>>
    THEN [exc |-> "IndexError", stack |-> self.stack, pushed |-> <<>>]
    ELSE [exc |-> "", stack |-> self.stack, pushed |-> <<Peek(self, 1)>>]

(***************************************************************************)
(* _WashningMashing.return_call: the stack of the frame after it and what  *)
(* it appends to the stack of the parent.  self.stack.pop() raises on an   *)
(* empty stack before the parent is touched.                               *)
(***************************************************************************)
return_call(self, has_parent) ==
    IF ~has_parent
    THEN [exc |-> "", stack |-> self.stack, pushed |-> <<>>]
    ELSE IF self.stack = <<>>
    THEN [exc |-> "IndexError", stack |-> self.stack, pushed |-> <<>>]
    ELSE [exc |-> "", stack |-> Below(self, 1), pushed |-> <<Peek(self, 1)>>]

\* _WashningMashing.save: the tuple appended to savepoints; the stack, the
\* locals and the globals in it are copies
save(self) ==
    [counter |-> self.counter, stack |-> self.stack, locals |-> self.locals,
     globals |-> self.globals]

\* restore that counts the savepoints from the oldest
restore_oldest(savepoints, n) ==
    IF ~InRange(savepoints, n - 1)
    THEN [exc |-> "IndexError", at |-> 0]
    ELSE [exc |-> "", at |-> n]

\* _WashningMashing.restore: the place in savepoints of savepoints[-n],
\* whose counter, stack, locals and globals become those of the frame
restore(savepoints, n) ==
    IF ~InRange(savepoints, -n)
    THEN [exc |-> "IndexError", at |-> 0]
    ELSE [exc |-> "", at |-> IF -n < 0 THEN Len(savepoints) - n + 1 ELSE -n + 1]

(***************************************************************************)
(* The state of a debugger session.                                        *)
(*   frames  the frames created so far; a frame holds references into      *)
(*           lists and dicts for its stack and its three scopes, and so    *)
(*           does a savepoint.  In a savepoint, saved and restored are     *)
(*           history: what save copied, and whether restore has handed the *)
(*           savepoint's objects to the frame since                        *)
(*   lists   the list objects, dicts the dict objects                      *)
(*   vm      Debugger.vm, the current frame                                *)
(*   run     the call of cont in progress or last finished                 *)
(*   last    the last call made on a frame: its arguments, its result and  *)
(*           the state before it                                           *)
(*   cmds    the number of commands the session still takes                *)
(***************************************************************************)
VARIABLES frames, lists, dicts, vm, run, last, cmds, loader
vars == <<frames, lists, dicts, vm, run, last, cmds, loader>>

\* the child of call shares the stack of its caller
Frame_shares_stack(code, version, stack, locals, globals, builtins, parent) ==
    [code |-> code, version |-> version, counter |-> 0,
     stack |-> IF parent = 0 THEN stack ELSE frames[parent].stack,
     locals |-> locals, globals |-> globals, builtins |-> builtins,
     parent |-> parent, breakpoints |-> <<>>, unsafe_ignores |-> <<>>,
     savepoints |-> <<>>, entry |-> 0]

\* _WashningMashing.__init__ / CrossVM.__init__ with the containers given
\* by reference.  entry is history: the depth of the caller's stack below
\* the function and the arguments of the call that made the frame.
Frame(code, version, stack, locals, globals, builtins, parent) ==
    [code |-> code, version |-> version, counter |-> 0, stack |-> stack,
     locals |-> locals, globals |-> globals, builtins |-> builtins,
     parent |-> parent, breakpoints |-> <<>>, unsafe_ignores |-> <<>>,
     savepoints |-> <<>>, entry |-> 0]

\* frame i of the state st = [frames, lists, dicts] with the contents of
\* its containers
ViewIn(st, i) ==
    LET f == st.frames[i]
    IN  [code |-> f.code, co |-> Codes[f.code], version |-> f.version,
         counter |-> f.counter,
         stack |-> st.lists[f.stack], locals |-> st.dicts[f.locals],
         globals |-> st.dicts[f.globals], builtins |-> st.dicts[f.builtins],
         breakpoints |-> f.breakpoints, unsafe_ignores |-> f.unsafe_ignores,
         exc |-> ""]

\* the handlers write the counter and, in place, the stack, locals, globals
Store(i, self) ==
    /\ frames' = [frames EXCEPT ![i].counter = self.counter]
    /\ lists' = [lists EXCEPT ![frames[i].stack] = self.stack]
    /\ dicts' = [dicts EXCEPT ![frames[i].locals] = self.locals,
                              ![frames[i].globals] = self.globals]

Pre == [frames |-> frames, lists |-> lists, dicts |-> dicts, vm |-> vm]
\* frame i now
View(i) == ViewIn(Pre, i)
Event(op, frame, unsafe, arg, cond, kind, exc) ==
    [op |-> op, frame |-> frame, unsafe |-> unsafe, arg |-> arg, cond |-> cond,
     kind |-> kind, exc |-> exc, pre |-> Pre]

Idle == [active |-> FALSE, unsafe |-> FALSE, frame |-> 0, steps |-> 0,
         kind |-> "", start |-> 0]

\* the inputs of the constructor: the root code object, its version and
\* the scopes handed in
Root(code, version, locals, globals, builtins) ==
    [code |-> code, version |-> version, locals |-> locals,
     globals |-> globals, builtins |-> builtins]

X0 == [n \in {"x"} |-> IntV(0)]
X1 == [n \in {"x"} |-> IntV(1)]
X2Y3 == [n \in {"x", "y"} |-> IF n = "x" THEN IntV(2) ELSE IntV(3)]
Len1 == [n \in {"len"} |-> HostV]
Arg1 == [n \in {"arg"} |-> IntV(1)]

Programs ==
    {Root(1, HostVersion, EmptyDict, EmptyDict, EmptyDict),
     Root(1, HostVersion, X1, X2Y3, Len1),
     Root(4, HostVersion, EmptyDict, EmptyDict, EmptyDict),
     Root(5, PY30, EmptyDict, EmptyDict, EmptyDict),
     Root(6, HostVersion, X0, X2Y3, EmptyDict),
     Root(6, HostVersion, Arg1, EmptyDict, EmptyDict)}

Zoo == {Root(Len(FixedCodes) + i, HostVersion, EmptyDict, EmptyDict, EmptyDict) :
            i \in DOMAIN ZooOps}

\* CrossVM(code, locals, globals, builtins, version=version)
\* the input file has been read when the Debugger is constructed
Loaded == [pc |-> "loaded"]

Construct(root, budget) ==
    /\ frames = <<Frame(root.code, root.version, 1, 1, 2, 3, 0)>>
    /\ lists = << <<>> >>
    /\ dicts = <<root.locals, root.globals, root.builtins>>
    /\ vm = 1
    /\ run = Idle
    /\ last = [op |-> "init", frame |-> 1, unsafe |-> FALSE, arg |-> 0,
               cond |-> NoCond, kind |-> "none", exc |-> "",
               pre |-> [frames |-> <<>>, lists |-> <<>>, dicts |-> <<>>, vm |-> 0]]
    /\ cmds = budget
    /\ loader = Loaded

Init == \E root \in Programs : Construct(root, MaxCmds)
InitOps == \E root \in Zoo : Construct(root, MaxCmds)

\* the inputs of the commands
HostOutcomes == {"raise", "value"}
PushValues == {IntV(3), FnV(2, <<IntV(8), IntV(9)>>), FnV(3, <<IntV(9)>>)}
Addresses == {0, 2, 4}
Conds == {NoCond, Cond("x")}
AllowNames == {"BINARY_ADD", "JUMP_ABSOLUTE"}
AllowConds == {NoCond, Cond("arg")}
\* argc of call: -1 stands for None (the operand of the current opcode)
Argcs == {-1, 0, 1, 2}
BuiltinNames == {"len"}
BuiltinValues == {IntV(5)}

Ready == ~run.active /\ cmds > 0

\* vm.step(unsafe): Debugger.step / Debugger.step_unsafe
Step(unsafe, host) ==
    /\ Ready
    /\ LET returns(r) ==
               /\ Store(vm, r.self)
               /\ last' = Event("step", vm, unsafe, 0, NoCond, r.kind, r.exc)
       IN  returns(step(View(vm), unsafe, host))
    /\ cmds' = cmds - 1
    /\ UNCHANGED loader
    /\ UNCHANGED <<vm, run>>

\* vm.cont(unsafe) is entered: Debugger.cont / Debugger.cont_unsafe
ContBegin(unsafe) ==
    /\ Ready
    /\ run' = [active |-> TRUE, unsafe |-> unsafe, frame |-> vm, steps |-> 0,
               kind |-> "", start |-> frames[vm].counter]
    /\ last' = Event("cont", vm, unsafe, 0, NoCond, "", "")
    /\ cmds' = cmds - 1
    /\ UNCHANGED loader
    /\ UNCHANGED <<frames, lists, dicts, vm>>

\* one turn of the loop of cont: a step, then the breakpoint test
ContIter(host) ==
    /\ run.active
    /\ run.steps < MaxContSteps
    /\ LET turn(r, c) ==
               /\ Store(run.frame, r.self)
               /\ last' = Event("cont_step", run.frame, run.unsafe, 0, NoCond,
                                r.kind, r.exc)
               /\ run' = [run EXCEPT !.active = ~c.stop, !.kind = c.kind,
                                     !.steps = IF r.kind = "none" THEN @ + 1 ELSE @]
           stepped(r) == turn(r, cont_returns(r))
       IN  stepped(step(View(run.frame), run.unsafe, host))
    /\ UNCHANGED <<vm, cmds, loader>>

\* ^C while cont runs: KeyboardInterrupt is raised in the step in progress,
\* before its handler is called or between its handler and the assignment
\* of the counter, leaves cont and is caught by the command loop
InterruptPoints == {"before", "handler"}
Interrupt(host, point) ==
    /\ run.active
    /\ LET interrupted(r) ==
               IF point = "before" THEN UNCHANGED <<frames, lists, dicts>>
               ELSE Store(run.frame, r.self)
       IN  interrupted(step_interrupted(View(run.frame), run.unsafe, host))
    /\ last' = Event("interrupt", run.frame, run.unsafe, 0, NoCond, "raise",
                     "KeyboardInterrupt")
    /\ run' = [run EXCEPT !.active = FALSE, !.kind = "interrupt"]
    /\ UNCHANGED <<vm, cmds, loader>>

\* Debugger.push: vm.stack.append(value)
Push(value) ==
    /\ Ready
    /\ lists' = [lists EXCEPT ![frames[vm].stack] = Append(@, value)]
    /\ last' = Event("push", vm, FALSE, 0, NoCond, "none", "")
    /\ cmds' = cmds - 1
    /\ UNCHANGED loader
    /\ UNCHANGED <<frames, dicts, vm, run>>

\* Debugger.pop: vm.stack.pop(-1)
Pop ==
    /\ Ready
    /\ LET st == lists[frames[vm].stack]
       IN  IF st = <<>>
           THEN /\ last' = Event("pop", vm, FALSE, 0, NoCond, "raise", "IndexError")
                /\ UNCHANGED lists
           ELSE /\ last' = Event("pop", vm, FALSE, 0, NoCond, "none", "")
                /\ lists' = [lists EXCEPT ![frames[vm].stack] =
                                              SubSeq(st, 1, Len(st) - 1)]
    /\ cmds' = cmds - 1
    /\ UNCHANGED loader
    /\ UNCHANGED <<frames, dicts, vm, run>>

\* vm.toggle_breakpoint(bp, condition): Debugger.break_
Toggle(bp, condition) ==
    /\ Ready
    /\ frames' = [frames EXCEPT ![vm].breakpoints =
                                    toggle_breakpoint(@, bp, condition)]
    /\ last' = Event("toggle", vm, FALSE, bp, condition, "none", "")
    /\ cmds' = cmds - 1
    /\ UNCHANGED loader
    /\ UNCHANGED <<lists, dicts, vm, run>>

\* Debugger.allow: vm.unsafe_ignores[opcode] = condition or None
Allow(name, condition) ==
    /\ Ready
    /\ frames' = [frames EXCEPT ![vm].unsafe_ignores =
                     DictSet(@, name, IF HasCond(condition) THEN condition
                                      ELSE NoCond)]
    /\ last' = Event("allow", vm, FALSE, 0, condition, "none", "")
    /\ cmds' = cmds - 1
    /\ UNCHANGED loader
    /\ UNCHANGED <<lists, dicts, vm, run>>

\* Debugger.disallow
Disallow(name) ==
    /\ Ready
    /\ frames' = [frames EXCEPT ![vm].unsafe_ignores =
                     IF name \in DOMAIN @ THEN DictDel(@, name) ELSE @]
    /\ last' = Event("disallow", vm, FALSE, 0, NoCond, "none", "")
    /\ cmds' = cmds - 1
    /\ UNCHANGED loader
    /\ UNCHANGED <<lists, dicts, vm, run>>

\* `builtins or {}` in __init__: the dict handed in unless it is empty
SharesBuiltins(builtins) == dicts[builtins] # EmptyDict

\* vm = vm.call(argc); argc = -1 stands for None.  The child is
\* type(self)(code, locals, self.locals | self.globals, self.builtins, self)
Enter(command, argc) ==
    /\ Ready
    /\ LET n == Len(dicts)
           caller == frames[vm]
           returns(given, exc, r) ==
             IF exc # ""
             THEN /\ last' = Event(command, vm, FALSE, given, NoCond, "raise", exc)
                  /\ lists' = [lists EXCEPT ![caller.stack] = r.stack]
                  /\ UNCHANGED <<frames, dicts, vm>>
             ELSE
                /\ last' = Event(command, vm, FALSE, given, NoCond, "none", "")
                /\ lists' = Append([lists EXCEPT ![caller.stack] = r.stack], <<>>)
                /\ dicts' = dicts \o <<r.locals, r.globals>>
                              \o (IF SharesBuiltins(caller.builtins) THEN <<>>
                                  ELSE <<EmptyDict>>)
                /\ frames' = Append(frames,
                      [Frame(r.code, caller.version, Len(lists) + 1, n + 1, n + 2,
                             IF SharesBuiltins(caller.builtins)
                             THEN caller.builtins ELSE n + 3,
                             vm)
                       EXCEPT !.entry = Len(lists[caller.stack]) - (given + 1)])
                /\ vm' = Len(frames) + 1
           called(cur, r) ==
               returns(IF argc # -1 THEN argc
                       ELSE IF cur.exc # "" THEN -1 ELSE cur.arg,
                       IF argc = -1 /\ cur.exc # "" THEN cur.exc ELSE r.exc, r)
           decoded(self, cur) ==
               called(cur, IF argc = -1 /\ cur.exc # ""
                           THEN [exc |-> cur.exc, stack |-> self.stack]
                           ELSE call(self, IF argc = -1 THEN cur.arg ELSE argc))
           on(self) == decoded(self, current_opcode(self))
       IN  on(View(vm))
    /\ cmds' = cmds - 1
    /\ UNCHANGED loader
    /\ UNCHANGED run

\* Debugger.call
Call(argc) ==
    /\ Len(frames) < MaxFrames
    /\ Enter("call", argc)

\* Debugger.return_: ValueError on the root frame, else self.vm = self.vm.call()
ReturnCommand ==
    IF frames[vm].parent = 0
    THEN /\ Ready
         /\ last' = Event("return_", vm, FALSE, 0, NoCond, "raise", "ValueError")
         /\ cmds' = cmds - 1
         /\ UNCHANGED <<frames, lists, dicts, vm, run, loader>>
    ELSE /\ Len(frames) < MaxFrames + 1
         /\ Enter("return_", -1)

\* vm = vm.return_call()
Return ==
    /\ Ready
    /\ LET me == frames[vm]
           returns(r) ==
               /\ lists' = IF me.parent = 0
                           THEN [lists EXCEPT ![me.stack] = r.stack]
                           ELSE [lists EXCEPT ![me.stack] = r.stack,
                                              ![frames[me.parent].stack] =
                                                  @ \o r.pushed]
               /\ vm' = IF me.parent # 0 /\ r.exc = "" THEN me.parent ELSE vm
               /\ last' = Event("return", vm, FALSE, 0, NoCond,
                                IF r.exc = "" THEN "none" ELSE "raise", r.exc)
       IN  returns(return_call(View(vm), me.parent # 0))
    /\ cmds' = cmds - 1
    /\ UNCHANGED loader
    /\ UNCHANGED <<frames, dicts, run>>

\* vm.save(): Debugger.save
Save ==
    /\ Ready
    /\ LET n == Len(dicts)
           saves(state) ==
               /\ lists' = Append(lists, state.stack)
               /\ dicts' = dicts \o <<state.locals, state.globals>>
               /\ frames' = [frames EXCEPT ![vm].savepoints =
                                Append(@, [counter |-> state.counter,
                                           stack |-> Len(lists) + 1,
                                           locals |-> n + 1, globals |-> n + 2,
                                           saved |-> state, restored |-> FALSE])]
       IN  saves(save(View(vm)))
    /\ last' = Event("save", vm, FALSE, 0, NoCond, "none", "")
    /\ cmds' = cmds - 1
    /\ UNCHANGED loader
    /\ UNCHANGED <<vm, run>>

\* vm.restore(entry): Debugger.restore
Restore(n) ==
    /\ Ready
    /\ LET restores(r) ==
               IF r.exc # ""
               THEN /\ last' = Event("restore", vm, FALSE, n, NoCond, "raise", r.exc)
                    /\ UNCHANGED frames
               ELSE /\ last' = Event("restore", vm, FALSE, n, NoCond, "none", "")
                    /\ frames' =
                          [frames EXCEPT
                             ![vm].counter = frames[vm].savepoints[r.at].counter,
                             ![vm].stack = frames[vm].savepoints[r.at].stack,
                             ![vm].locals = frames[vm].savepoints[r.at].locals,
                             ![vm].globals = frames[vm].savepoints[r.at].globals,
                             ![vm].savepoints[r.at].restored = TRUE]
       IN  restores(restore(frames[vm].savepoints, n))
    /\ cmds' = cmds - 1
    /\ UNCHANGED loader
    /\ UNCHANGED <<lists, dicts, vm, run>>

\* Debugger.dis of the current frame: vm.opcodes() is listed
Dis ==
    /\ Ready
    /\ LET listed(r) ==
               last' = Event("dis", vm, FALSE, Len(r.yielded), NoCond,
                             IF r.exc = "" THEN "none" ELSE "raise", r.exc)
       IN  listed(opcodes(View(vm)))
    /\ cmds' = cmds - 1
    /\ UNCHANGED loader
    /\ UNCHANGED <<frames, lists, dicts, vm, run>>

\* builtins[name] = value on the builtins of a frame: Debugger.builtin
SetBuiltin(i, name, value) ==
    /\ Ready
    /\ i \in DOMAIN frames
    /\ dicts' = [dicts EXCEPT ![frames[i].builtins] = DictSet(@, name, value)]
    /\ last' = Event("builtin", i, FALSE, 0, NoCond, "none", "")
    /\ cmds' = cmds - 1
    /\ UNCHANGED loader
    /\ UNCHANGED <<frames, lists, vm, run>>

Next ==
    \/ \E unsafe \in BOOLEAN, host \in HostOutcomes : Step(unsafe, host)
    \/ \E unsafe \in BOOLEAN : ContBegin(unsafe)
    \/ \E host \in HostOutcomes : ContIter(host)
    \/ \E value \in PushValues : Push(value)
    \/ Pop
    \/ \E bp \in Addresses, condition \in Conds : Toggle(bp, condition)
    \/ \E name \in AllowNames, condition \in AllowConds : Allow(name, condition)
    \/ \E name \in AllowNames : Disallow(name)
    \/ \E argc \in Argcs : Call(argc)
    \/ \E i \in 1..MaxFrames, name \in BuiltinNames, value \in BuiltinValues :
          SetBuiltin(i, name, value)
    \/ Dis

Spec == Init /\ [][Next]_vars

\* the opcodes one by one: operands pushed, the instruction stepped
NextOps ==
    \/ \E unsafe \in BOOLEAN, host \in HostOutcomes : Step(unsafe, host)
    \/ \E unsafe \in BOOLEAN : ContBegin(unsafe)
    \/ \E host \in HostOutcomes : ContIter(host)
    \/ \E value \in PushValues : Push(value)
    \/ Pop
    \/ \E name \in AllowNames, condition \in AllowConds : Allow(name, condition)
    \/ \E name \in AllowNames : Disallow(name)

SpecOps == InitOps /\ [][NextOps]_vars

\* the sequence builders one by one, on operands pushed by the session
InitBuild ==
    \E i \in 1..(2 * MaxBuild + 2) :
        Construct(Root(Len(FixedCodes) + Len(ZooOps) + i, HostVersion, EmptyDict,
                       EmptyDict, EmptyDict), MaxCmds)

SpecBuild == InitBuild /\ [][NextOps]_vars

\* sessions of steps and of cont interrupted and resumed
NextInt ==
    \/ \E unsafe \in BOOLEAN, host \in HostOutcomes : Step(unsafe, host)
    \/ \E unsafe \in BOOLEAN : ContBegin(unsafe)
    \/ \E host \in HostOutcomes : ContIter(host)
    \/ \E host \in HostOutcomes, point \in InterruptPoints : Interrupt(host, point)

SpecInt == Init /\ [][NextInt]_vars

\* a longer session on one program: calls and returns, saves and restores
InitDeep == Construct(Root(1, HostVersion, X1, X2Y3, EmptyDict), MaxDeepCmds)

DeepValues == {IntV(3), FnV(2, <<IntV(8), IntV(9)>>)}
DeepArgcs == {0, 1}
DeepEntries == {1, 2}

NextDeep ==
    \/ Step(FALSE, "value")
    \/ \E value \in DeepValues : Push(value)
    \/ Pop
    \/ \E argc \in DeepArgcs : Call(argc)
    \/ Return
    \/ Save
    \/ \E entry \in DeepEntries : Restore(entry)

SpecDeep == InitDeep /\ [][NextDeep]_vars

\* sessions of cont: the loop of cont goes on until it returns or ^C is hit
NextCont ==
    \/ \E unsafe \in BOOLEAN, host \in HostOutcomes : Step(unsafe, host)
    \/ \E bp \in Addresses, condition \in Conds : Toggle(bp, condition)
    \/ \E name \in AllowNames, condition \in AllowConds : Allow(name, condition)
    \/ \E unsafe \in BOOLEAN : ContBegin(unsafe)
    \/ \E host \in HostOutcomes : ContIter(host)
    \/ \E host \in HostOutcomes, point \in InterruptPoints : Interrupt(host, point)

\* a turn of the loop of cont as it shows on run: while cont runs no command
\* is read, so the steps that change run are those of ContIter and ^C (which
\* leaves the kind "interrupt"), and a turn can be taken exactly when
\* ContIter can
ContTurn ==
    /\ run.active
    /\ run.steps < MaxContSteps
    /\ run' \in {[run EXCEPT !.active = a, !.kind = k, !.steps = s] :
                   a \in BOOLEAN, k \in {"none", "fault", "raise"},
                   s \in {run.steps, run.steps + 1}}

\* `while True` in cont: a loop that can take a turn takes it
FairSpecCont == Init /\ [][NextCont]_vars /\ WF_run(ContTurn)

\* sessions with the return command
NextRet ==
    \/ Step(FALSE, "value")
    \/ \E value \in DeepValues : Push(value)
    \/ Pop
    \/ \E argc \in DeepArgcs : Call(argc)
    \/ ReturnCommand

SpecRet == InitDeep /\ [][NextRet]_vars

(***************************************************************************)
(* compat.py: the serialized form of code objects.                         *)
(***************************************************************************)
MaxDigits == 4
MaxNesting == 2

DETERMINISTIC_PYC == <<3, 7, 0, "alpha", 4>>
POSITIONAL_ONLY_PARAMS == <<3, 8, 0, "alpha", 1>>

\* n.to_bytes(4, "little", signed=True)
W32(n) ==
    LET m == IF n < 0 THEN (n + 1) + 2147483647 ELSE n
    IN  <<m % 256, (m \div 256) % 256, (m \div 65536) % 256,
          (m \div 16777216) + (IF n < 0 THEN 128 ELSE 0)>>

\* the values marshal writes
MNone == [t |-> "N"]
MInt(v) == [t |-> "i", v |-> v]
\* an int of |n| digits of 15 bits, negative when n < 0
MLong(n) == [t |-> "l", n |-> n, digits |-> [k \in 1..(IF n < 0 THEN -n ELSE n) |-> k]]
MStr(s) == [t |-> "z", s |-> s]
MBytes(s) == [t |-> "s", s |-> s]
MTuple(items) == [t |-> ")", items |-> items]
MCode(argcount, consts) == [t |-> "c", argcount |-> argcount, consts |-> consts]

\* ord of the type tags; FLAG_REF is set on the tag of a code object
Tag(c) ==
    CASE c = "N" -> 78 [] c = "i" -> 105 [] c = "l" -> 108 [] c = "z" -> 122
      [] c = "Z" -> 90 [] c = "s" -> 115 [] c = ")" -> 41 [] c = "c" -> 99
      [] c = "g" -> 103 [] c = "y" -> 121 [] c = "r" -> 114 [] c = "a" -> 97
      [] c = "A" -> 65 [] c = "t" -> 116 [] c = "u" -> 117 [] c = "0" -> 48
      [] c = "F" -> 70 [] c = "T" -> 84 [] c = "S" -> 83 [] c = "." -> 46
FLAG_REF == 128

\* marshal.dumps(o); posonly: the writer is of POSITIONAL_ONLY_PARAMS or
\* later, whose code objects carry posonlyargcount after argcount
RECURSIVE dumps(_, _)
RECURSIVE dumps_each(_, _)
dumps_each(items, posonly) ==
    IF items = <<>> THEN <<>>
    ELSE dumps(Head(items), posonly) \o dumps_each(Tail(items), posonly)
dumps(o, posonly) ==
    CASE o.t = "N" -> <<Tag("N")>>
      [] o.t = "i" -> <<Tag("i")>> \o W32(o.v)
      [] o.t = "l" -> <<Tag("l")>> \o W32(o.n)
                        \o dumps_each([k \in DOMAIN o.digits |->
                                          [t |-> "h", v |-> o.digits[k]]], posonly)
      [] o.t = "h" -> <<o.v % 256, o.v \div 256>>
      [] o.t = "z" -> <<Tag("z"), Len(o.s)>> \o o.s
      [] o.t = "s" -> <<Tag("s")>> \o W32(Len(o.s)) \o o.s
      [] o.t = ")" -> <<Tag(")"), Len(o.items)>> \o dumps_each(o.items, posonly)
      [] o.t = "c" ->
            <<Tag("c") + FLAG_REF>> \o W32(o.argcount)
            \o (IF posonly THEN W32(0) ELSE <<>>)
            \o W32(0) \o W32(0) \o W32(1) \o W32(64)
            \o dumps(MBytes(<<100, 0, 83, 0>>), posonly)
            \o dumps(o.consts, posonly)
            \o dumps_each(<<MTuple(<<>>), MTuple(<<>>), MTuple(<<>>), MTuple(<<>>),
                            MStr(<<102>>), MStr(<<109>>)>>, posonly)
            \o W32(1)
            \o dumps(MBytes(<<>>), posonly)

\* the code objects in o, o included
RECURSIVE code_objects(_)
RECURSIVE code_objects_each(_)
code_objects_each(items) ==
    IF items = <<>> THEN 0
    ELSE code_objects(Head(items)) + code_objects_each(Tail(items))
code_objects(o) ==
    CASE o.t = "c" -> 1 + code_objects(o.consts)
      [] o.t = ")" -> code_objects_each(o.items)
      [] OTHER -> 0

(***************************************************************************)
(* compat.py: fix_code_marshal.                                            *)
(***************************************************************************)
\* sys.int_info.bits_per_digit // 15 on the hosts CPython builds for
LONG_SHIFT_RATIOS == {1, 2}

\* one turn of the while loop on [code, i, skips, exc]
fix_turn(s, LONG_SHIFT_RATIO) ==
    LET hit == s.skips # <<>> /\ s.skips[Len(s.skips)] = 1
        skips == IF s.skips = <<>> THEN <<>>
                 ELSE IF hit THEN SubSeq(s.skips, 1, Len(s.skips) - 1)
                 ELSE [s.skips EXCEPT ![Len(s.skips)] = @ - 1]
        i == IF hit THEN s.i + 4 ELSE s.i
        code == s.code
        at(j) == code[j + 1]
        raise(e) == [code |-> code, i |-> i, skips |-> skips, exc |-> e]
        goes(j, sk, c) == [code |-> c, i |-> j + 1, skips |-> sk, exc |-> ""]
        tagged(b) ==
            LET is(names) == \E c \in names : b = Tag(c)
                n == from_bytes(PySlice(code, i + 1, i + 5))
            IN
            IF is({"c"})
            THEN goes(i + 4 * 6, Append(skips, 9),
                      PySlice(code, 0, i + 4) \o <<0, 0, 0, 0>>
                        \o PySlice(code, i + 4, Len(code)))
            ELSE IF is({"g"}) THEN goes(i + 8, skips, code)
            ELSE IF is({"y"}) THEN goes(i + 16, skips, code)
            ELSE IF is({"l"})
            THEN IF i + 4 < Len(code) /\ at(i + 4) >= 32
                 \* a count of 2^29 or more: i leaves any buffer
                 THEN goes(i + 4 + Len(code), skips, code)
                 ELSE goes(i + 4 + (IF n # 0
                                    THEN 2 * (((n - 1) % LONG_SHIFT_RATIO) + n)
                                    ELSE 0), skips, code)
            ELSE IF is({"i", "r"}) THEN goes(i + 4, skips, code)
            ELSE IF is({"z", "Z"})
            THEN IF i + 1 >= Len(code) THEN raise("IndexError")
                 ELSE goes(i + at(i + 1) + 1, skips, code)
            ELSE IF is({"a", "A", "s", "t", "u"})
            THEN IF i + 4 < Len(code) /\ at(i + 4) >= 64
                 THEN goes(i + 4 + Len(code), skips, code)
                 ELSE goes(i + n + 4, skips, code)
            ELSE IF is({")"})
            THEN IF skips = <<>> THEN goes(i + 1, skips, code)
                 ELSE IF i + 1 >= Len(code) THEN raise("IndexError")
                 ELSE goes(i + 1, [skips EXCEPT ![Len(skips)] = @ + at(i + 1)],
                           code)
            ELSE IF is({"0", "N", "F", "T", "S", "."}) THEN goes(i, skips, code)
            ELSE raise("RuntimeError")
    IN  IF i >= Len(code) THEN raise("IndexError")
        ELSE tagged(IF at(i) >= FLAG_REF THEN at(i) - FLAG_REF ELSE at(i))

\* the loop from state s to its end
RECURSIVE fix_loop(_, _)
fix_loop(s, LONG_SHIFT_RATIO) ==
    IF s.exc # "" \/ s.i >= Len(s.code) THEN s
    ELSE fix_loop(fix_turn(s, LONG_SHIFT_RATIO), LONG_SHIFT_RATIO)

\* fix_code_marshal(src, version): [exc, val]
fix_code_marshal(src, version, LONG_SHIFT_RATIO) ==
    LET start == [code |-> src, i |-> 0, skips |-> <<>>, exc |-> ""]
        ends(s) == [exc |-> s.exc, val |-> s.code]
    IN  IF VersionLT(version, POSITIONAL_ONLY_PARAMS)
        THEN ends(fix_loop(start, LONG_SHIFT_RATIO))
        ELSE [exc |-> "", val |-> src]

\* the state of the interpreter before the Debugger is constructed
vmvars == <<frames, lists, dicts, vm, run, last, cmds>>
Unbuilt ==
    /\ frames = <<>>
    /\ lists = <<>>
    /\ dicts = <<>>
    /\ vm = 0
    /\ run = Idle
    /\ last = [op |-> "init", frame |-> 0, unsafe |-> FALSE, arg |-> 0,
               cond |-> NoCond, kind |-> "none", exc |-> "",
               pre |-> [frames |-> <<>>, lists |-> <<>>, dicts |-> <<>>, vm |-> 0]]
    /\ cmds = 0

\* code objects nested d deep in the constants of one another
RECURSIVE Nested(_)
Nested(d) ==
    IF d = 0 THEN MCode(0, MTuple(<<MNone, MInt(7)>>))
    ELSE MCode(0, MTuple(<<Nested(d - 1), MNone>>))

\* the objects whose serialized form is patched
FixObjects ==
    {MTuple(<<MLong(n), MNone>>) : n \in (-MaxDigits)..MaxDigits}
    \cup {Nested(d) : d \in 0..MaxNesting}
    \cup {MCode(0, MTuple(<<MLong(n), Nested(0)>>)) : n \in {3, 4}}
    \cup {MCode(1, MTuple(<<MStr(<<120>>), MInt(7)>>))}
FixVersions == {DETERMINISTIC_PYC, POSITIONAL_ONLY_PARAMS, HostVersion}

InitFix ==
    /\ Unbuilt
    /\ \E obj \in FixObjects, version \in FixVersions,
          LONG_SHIFT_RATIO \in LONG_SHIFT_RATIOS :
          loader = [pc |-> "enter", obj |-> obj, src |-> dumps(obj, FALSE),
                    version |-> version, ratio |-> LONG_SHIFT_RATIO,
                    code |-> dumps(obj, FALSE), i |-> 0, skips |-> <<>>,
                    exc |-> "", from |-> 0]

\* if version < POSITIONAL_ONLY_PARAMS: i = 0; skips = []
FixEnter ==
    /\ loader.pc = "enter"
    /\ loader' = [loader EXCEPT !.pc = IF VersionLT(loader.version,
                                                    POSITIONAL_ONLY_PARAMS)
                                       THEN "fix" ELSE "returned"]
    /\ UNCHANGED vmvars

\* while i < len(code): one turn
FixTurn ==
    /\ loader.pc = "fix"
    /\ loader.i < Len(loader.code)
    /\ LET turned(s) ==
               loader' = [loader EXCEPT !.code = s.code, !.i = s.i,
                                        !.skips = s.skips, !.exc = s.exc,
                                        !.from = loader.i,
                                        !.pc = IF s.exc # "" THEN "raised" ELSE @]
       IN  turned(fix_turn([code |-> loader.code, i |-> loader.i,
                            skips |-> loader.skips, exc |-> ""], loader.ratio))
    /\ UNCHANGED vmvars

\* return bytes(code)
FixReturn ==
    /\ loader.pc = "fix"
    /\ loader.i >= Len(loader.code)
    /\ loader' = [loader EXCEPT !.pc = "returned"]
    /\ UNCHANGED vmvars

NextFix == FixEnter \/ FixTurn \/ FixReturn

SpecFix == InitFix /\ [][NextFix]_vars

(***************************************************************************)
(* compat.py: read_pyc, and the export of Debugger.main.                   *)
(***************************************************************************)
\* the items of the dict, in insertion order
PYC_MAGIC_NUMBERS ==
    << <<3000, PY30>>, <<3370, FIXED_WIDTH_OPCODES>>, <<3392, DETERMINISTIC_PYC>>,
       <<3410, POSITIONAL_ONLY_PARAMS>>, <<3430, <<3, 10, 0, "alpha", 1>> >>,
       <<3432, <<3, 10, 0, "alpha", 2>> >>, <<3435, <<3, 10, 0, "alpha", 7>> >>,
       <<3437, <<3, 10, 0, "beta", 1>> >>, <<3550, <<3, 13, 0>> >> >>

\* b is the beginning of c
IsPrefix(b, c) == Len(b) <= Len(c) /\ SubSeq(c, 1, Len(b)) = b

\* the values marshal.loads of the host can return here
Marshalled == {Nested(d) : d \in 0..1} \cup {MNone}

\* marshal.loads(b) on a host of POSITIONAL_ONLY_PARAMS or later: the value
\* whose serialized form begins b, bytes after it are not read
loads(b) ==
    IF b = <<>> THEN [exc |-> "EOFError", val |-> MNone]
    ELSE IF \E o \in Marshalled : IsPrefix(dumps(o, TRUE), b)
    THEN [exc |-> "", val |-> CHOOSE o \in Marshalled : IsPrefix(dumps(o, TRUE), b)]
    ELSE IF \E c \in {"N", "i", "l", "z", "s", ")", "c"} :
               b[1] \in {Tag(c), Tag(c) + FLAG_REF}
    THEN [exc |-> "EOFError", val |-> MNone]
    ELSE [exc |-> "ValueError", val |-> MNone]

\* f.write(MAGIC_NUMBER); f.write(bytes(12)); f.write(marshal.dumps(code)),
\* the writer being the Python of magic number magic
export(magic, code) ==
    <<magic % 256, magic \div 256, 13, 10>> \o [k \in 1..12 |-> 0]
      \o dumps(code, magic >= 3410)

\* the files read: magic numbers at and around the keys of the registry and
\* the ends of the valid range, whole and cut short
PycMagics == {2999, 3000, 3001, 3370, 3394, 3410, 3413, 3425, 3550, 3999, 4000}
NativeMagics == {3413, 3425}
PycCuts == {1, 3, 16, 17, 40}

InitPyc ==
    /\ Unbuilt
    /\ \E magic \in PycMagics, obj \in Marshalled \ {MNone},
          cut \in PycCuts \cup {0}, LONG_SHIFT_RATIO \in LONG_SHIFT_RATIOS :
          LET whole == export(magic, obj)
          IN  loader = [pc |-> "magic", obj |-> obj,
                        exported |-> cut = 0 /\ magic \in NativeMagics,
                        f |-> IF cut = 0 THEN whole ELSE SubSeq(whole, 1, cut),
                        pos |-> 0, magic |-> 0, k |-> 1, version |-> <<>>,
                        ratio |-> LONG_SHIFT_RATIO, exc |-> "", result |-> MNone]

\* magic = int.from_bytes(f.read(2), "little"), and the range test
ReadMagic ==
    /\ loader.pc = "magic"
    /\ LET magic == from_bytes(PySlice(loader.f, 0, 2))
       IN  loader' = [loader EXCEPT
                        !.magic = magic, !.pos = Min(2, Len(loader.f)),
                        !.pc = IF magic \in 3000..3999 THEN "version" ELSE "raised",
                        !.exc = IF magic \in 3000..3999 THEN "" ELSE "RuntimeError"]
    /\ UNCHANGED vmvars

\* one turn of `for k, v in PYC_MAGIC_NUMBERS.items()`: break, or version = v
SelectVersion ==
    /\ loader.pc = "version"
    /\ loader' =
          IF loader.k > Len(PYC_MAGIC_NUMBERS) THEN [loader EXCEPT !.pc = "skip"]
          ELSE IF loader.magic <= PYC_MAGIC_NUMBERS[loader.k][1]
          THEN [loader EXCEPT !.pc = "skip"]
          ELSE [loader EXCEPT !.version = <<PYC_MAGIC_NUMBERS[loader.k][2]>>,
                              !.k = @ + 1]
    /\ UNCHANGED vmvars

\* one turn of `while f.read(1) != b"\xe3": continue`; at the end of the
\* file read returns b"" and the loop goes on
SkipByte ==
    /\ loader.pc = "skip"
    /\ loader' =
          IF loader.pos >= Len(loader.f) THEN loader
          ELSE [loader EXCEPT !.pos = @ + 1,
                              !.pc = IF loader.f[loader.pos + 1] = Tag("c") + FLAG_REF
                                     THEN "load" ELSE @]
    /\ UNCHANGED vmvars

\* return version, marshal.loads(fix_code_marshal(f.read(), version))
Load ==
    /\ loader.pc = "load"
    /\ LET raises(e) == [loader EXCEPT !.pc = "raised", !.exc = e,
                                       !.pos = Len(loader.f)]
           loaded(r) ==
               IF r.exc # "" THEN raises(r.exc)
               ELSE [loader EXCEPT !.pc = "returned", !.result = r.val,
                                   !.pos = Len(loader.f)]
           fixed(r) == IF r.exc # "" THEN raises(r.exc) ELSE loaded(loads(r.val))
       IN  loader' =
              IF loader.version = <<>>
              THEN [loader EXCEPT !.pc = "raised", !.exc = "UnboundLocalError"]
              ELSE fixed(fix_code_marshal(PySlice(loader.f, loader.pos,
                                                  Len(loader.f)),
                                          loader.version[1], loader.ratio))
    /\ UNCHANGED vmvars

NextPyc == ReadMagic \/ SelectVersion \/ SkipByte \/ Load

SpecPyc == InitPyc /\ [][NextPyc]_vars

\* the reads of the file go on as long as one is possible
FairSpecPyc == SpecPyc /\ WF_vars(NextPyc)

(***************************************************************************)
(* assembler.py: pys_assemble.                                             *)
(***************************************************************************)
MaxNodes == 4

\* the children of a Code node: Directive(name, value), Opcode(op, arg)
Directive(name, value) ==
    [k |-> name, op |-> 0, arg |-> [t |-> "str", n |-> 0, s |-> value,
                                    children |-> <<>>]]
Opcode(name, arg) == [k |-> "op", op |-> opmap(name), arg |-> arg]
IntArg(n) == [t |-> "int", n |-> n, s |-> "", children |-> <<>>]
StrArg(s) == [t |-> "str", n |-> 0, s |-> s, children |-> <<>>]
CodeArg(children) == [t |-> "code", n |-> 0, s |-> "", children |-> children]

\* opcode.hasconst, opcode.hasname, opcode.hasjabs among the opcodes used
hasconst == {opmap("LOAD_CONST")}
hasname == {opmap("LOAD_NAME"), opmap("STORE_NAME"), opmap("LOAD_GLOBAL"),
            opmap("STORE_GLOBAL")}
hasjabs == {opmap("JUMP_ABSOLUTE")}

\* ast.literal_eval on the literals written
literal_eval(s) == IF s = "42" THEN IntV(42) ELSE IF s = "7" THEN IntV(7) ELSE NoneV

\* x is value: the small ints, the bools and None are single objects
is_same(x, value) ==
    x.t = value.t /\ x.t \in {"int", "bool", "none"} /\ x = value

\* len(bytecode), the address of a label in bytes
label_address_bytes(bytecode) == Len(bytecode)
\* len(bytecode) // 2
label_address(bytecode) == Len(bytecode) \div 2

\* list.index(x) for x in list
IndexOf(list, x) == (CHOOSE i \in DOMAIN list : list[i] = x
                                     /\ \A j \in 1..(i - 1) : list[j] # x) - 1

\* the state of pys_assemble before its loop
AsmStart == [bytecode |-> <<>>, constants |-> <<>>, names |-> <<>>,
             labels |-> EmptyDict, deferred |-> EmptyDict, exc |-> ""]

\* pys_assemble(node): [exc, val], val the CodeType returned
RECURSIVE pys_assemble(_)

\* one turn of `for n in node.children` on the state st
assemble_node(st, n) ==
    LET raise(e) == [st EXCEPT !.exc = e]
        emit(bc, operand, next) ==
            IF operand > 255 THEN raise("ValueError")
            ELSE [next EXCEPT !.bytecode = Append(bc, operand)]
        label ==
            LET addr == label_address(st.bytecode)
                offs == IF n.arg.s \in DOMAIN st.deferred
                        THEN st.deferred[n.arg.s] ELSE <<>>
            IN  IF offs # <<>> /\ addr > 255 THEN raise("ValueError")
                ELSE [st EXCEPT
                        !.labels = DictSet(@, n.arg.s, addr),
                        !.deferred = DictSet(@, n.arg.s, offs),
                        !.bytecode = [j \in DOMAIN @ |->
                                         IF \E m \in DOMAIN offs : offs[m] + 1 = j
                                         THEN addr ELSE @[j]]]
        const(bc) ==
            LET value == literal_eval(n.arg.s)
                found == {i \in DOMAIN st.constants : is_same(st.constants[i], value)}
            IN  IF found # {}
                THEN emit(bc, (CHOOSE i \in found : \A j \in found : i <= j) - 1, st)
                ELSE emit(bc, Len(st.constants),
                          [st EXCEPT !.constants = Append(@, value)])
        child(bc) ==
            LET made(r) ==
                    IF r.exc # "" THEN raise(r.exc)
                    ELSE emit(bc, Len(bc) - 1,
                              [st EXCEPT !.constants = Append(@, CodeV(r.val))])
            IN  made(pys_assemble(n.arg.children))
        name(bc) ==
            IF \E i \in DOMAIN st.names : st.names[i] = n.arg.s
            THEN emit(bc, IndexOf(st.names, n.arg.s), st)
            ELSE emit(bc, Len(st.names), [st EXCEPT !.names = Append(@, n.arg.s)])
        jump(bc) ==
            IF n.arg.s \in DOMAIN st.labels THEN emit(bc, st.labels[n.arg.s], st)
            ELSE emit(bc, 0,
                      [st EXCEPT !.deferred =
                          DictSet(@, n.arg.s,
                                  Append(IF n.arg.s \in DOMAIN @ THEN @[n.arg.s]
                                         ELSE <<>>, Len(bc)))])
        opcode(bc) ==
            IF n.arg.t = "int" THEN emit(bc, n.arg.n, st)
            ELSE IF n.op \in hasconst
            THEN IF n.arg.t = "code" THEN child(bc) ELSE const(bc)
            ELSE IF n.op \in hasname THEN name(bc)
            ELSE IF n.op \in hasjabs THEN jump(bc)
            ELSE raise("ValueError")
    IN  IF n.k = "label" THEN label
        ELSE IF n.k = "name" THEN st
        ELSE IF n.k # "op" THEN raise("ValueError")
        ELSE opcode(Append(st.bytecode, n.op))

\* the loop over children from the state st
RECURSIVE assemble_from(_, _)
assemble_from(st, children) ==
    IF children = <<>> \/ st.exc # "" THEN st
    ELSE assemble_from(assemble_node(st, Head(children)), Tail(children))

\* CodeType(*code_args.values())
CodeType(st) == Code(st.bytecode, st.constants, st.names, <<>>, 0)

pys_assemble(children) ==
    LET returns(st) == [exc |-> st.exc, val |-> CodeType(st)]
    IN  returns(assemble_from(AsmStart, children))

\* the lines of the programs assembled; f is an embedded @code block
ChildBody == <<Directive("name", "f"), Opcode("LOAD_CONST", StrArg("7"))>>
AsmNodes ==
    {Directive("label", "L"), Directive("label", "M"),
     Opcode("JUMP_ABSOLUTE", StrArg("L")), Opcode("JUMP_ABSOLUTE", StrArg("M")),
     Opcode("LOAD_CONST", StrArg("42")), Opcode("LOAD_CONST", StrArg("7")),
     Opcode("LOAD_NAME", StrArg("x")), Opcode("STORE_NAME", StrArg("y")),
     Opcode("LOAD_CONST", CodeArg(ChildBody)), Opcode("NOP", IntArg(0))}

\* pys_assemble(node) is entered; prog holds the children met so far
InitAsm ==
    /\ Unbuilt
    /\ loader = [pc |-> "asm", prog |-> <<>>, st |-> AsmStart, before |-> AsmStart,
                 result |-> CodeType(AsmStart)]

\* one turn of the loop, on the next child n of node
AssembleNode(n) ==
    /\ loader.pc = "asm"
    /\ Len(loader.prog) < MaxNodes
    /\ LET turned(st) ==
               loader' = [loader EXCEPT !.prog = Append(@, n), !.before = loader.st,
                                        !.st = st,
                                        !.pc = IF st.exc # "" THEN "raised" ELSE @]
       IN  turned(assemble_node(loader.st, n))
    /\ UNCHANGED vmvars

\* node.children is exhausted: return CodeType(*code_args.values())
AssembleReturn ==
    /\ loader.pc = "asm"
    /\ loader' = [loader EXCEPT !.pc = "returned", !.result = CodeType(loader.st)]
    /\ UNCHANGED vmvars

NextAsm == (\E n \in AsmNodes : AssembleNode(n)) \/ AssembleReturn

SpecAsm == InitAsm /\ [][NextAsm]_vars

(***************************************************************************)
(* Properties.  Before(i) is frame i before the last call made on a frame, *)
(* View(i) is frame i after it.                                            *)
(***************************************************************************)
Before(i) == ViewIn(last.pre, i)
\* the last call was a step: one made by a command or one made by cont
StepEvent == last.op \in {"step", "cont_step"}
\* the instruction the last step was made on, decoded
Decoded == current_opcode(Before(last.frame))
DecodedName == opname(Decoded.op)
\* the last step was made with the counter on an unsafe opcode whose name
\* was not in the unsafe-allowlist
OnUnsafeOpcode ==
    /\ StepEvent
    /\ Decoded.exc = ""
    /\ DecodedName \in UnsafeNames
    /\ DecodedName \notin DOMAIN Before(last.frame).unsafe_ignores
SameState(a, b) ==
    /\ a.counter = b.counter
    /\ a.stack = b.stack
    /\ a.locals = b.locals
    /\ a.globals = b.globals
\* the width of the instruction at the counter of self
Width(self) ==
    IF VersionLT(self.version, FIXED_WIDTH_OPCODES)
    THEN IF PyIndex(co_code(self), self.counter) < HAVE_ARGUMENT THEN 1 ELSE 3
    ELSE 2

\* C1: step(unsafe=false) with the counter on an unsafe opcode whose name is
\* not in the unsafe-allowlist returns an unsafe-operation fault and leaves
\* the counter, the stack, the locals and the globals as they were.
UnsafeRefused ==
    (OnUnsafeOpcode /\ ~last.unsafe) =>
        /\ last.kind = "fault"
        /\ last.exc = "UnsafeOperation"
        /\ SameState(Before(last.frame), View(last.frame))

\* a step command refused on an unsafe opcode with two operands on the stack
UnsafeRefusedReached ==
    /\ OnUnsafeOpcode
    /\ last.op = "step"
    /\ ~last.unsafe
    /\ last.exc = "UnsafeOperation"
    /\ Len(View(last.frame).stack) = 2

FaultKeepsCounter ==
    (StepEvent /\ last.kind = "fault") =>
        View(last.frame).counter = Before(last.frame).counter

\* cont returned the wrapped exception of the third instruction
FaultKeepsCounterReached ==
    /\ last.op = "cont_step"
    /\ ~run.active
    /\ run.kind = "fault"
    /\ last.exc = "TypeError"
    /\ run.steps = 2
    /\ View(last.frame).counter = 4

\* C4, as stated: step and cont report every failure as a returned fault
\* and never raise, also with the counter at or past the end of the bytecode.
StepNeverRaises == StepEvent => last.kind # "raise"

\* the breakpoint of self at its counter triggers
Triggered(self) ==
    /\ self.counter \in DOMAIN self.breakpoints
    /\ LET c == self.breakpoints[self.counter]
       IN  \/ c = NoCond
           \/ /\ c # NoCond
              /\ \/ c[1] = ""
                 \/ /\ c[1] \in DOMAIN self.locals
                    /\ Truthy(self.locals[c[1]])
                 \/ /\ c[1] \notin DOMAIN self.locals
                    /\ c[1] \in DOMAIN self.globals
                    /\ Truthy(self.globals[c[1]])
                 \/ /\ c[1] \notin DOMAIN self.locals \cup DOMAIN self.globals
                    /\ c[1] \in DOMAIN self.builtins
                    /\ Truthy(self.builtins[c[1]])

\* C5: cont makes a step before it looks at the breakpoints and goes on
\* stepping; it returns a fault exactly when its last step returned one, and
\* returns no fault only after a successful step that left the counter on an
\* address of the breakpoint table whose guard is absent or evaluates true;
\* it does not step past such an address or past a fault.
ContStopsAtBreakpoint ==
    /\ (last.op = "cont" => run.active /\ run.steps = 0)
    /\ (last.op = "cont_step" /\ run.active) =>
          /\ last.kind = "none"
          /\ ~Triggered(View(run.frame))
    /\ (last.op = "cont_step" /\ ~run.active) =>
          /\ run.kind = "fault" <=> last.kind = "fault"
          /\ run.kind = "none" =>
                /\ last.kind = "none"
                /\ run.steps >= 1
                /\ Triggered(View(run.frame))

\* cont ran two instructions, past a breakpoint whose guard names nothing,
\* and stopped on a breakpoint without a guard
ContStopsAtBreakpointReached ==
    /\ last.op = "cont_step"
    /\ ~run.active
    /\ run.kind = "none"
    /\ run.steps = 2
    /\ View(run.frame).counter = 4
    /\ 2 \in DOMAIN View(run.frame).breakpoints

\* C6: after toggle_breakpoint(addr, cond) addr is absent from the
\* breakpoint table iff it was present before and cond is absent; otherwise
\* addr is mapped to cond; no other address and no other frame is changed.
ToggleSetsOrRemoves ==
    last.op = "toggle" =>
        LET was == Before(last.frame).breakpoints
            now == View(last.frame).breakpoints
            addr == last.arg
        IN  /\ addr \notin DOMAIN now <=> (addr \in DOMAIN was /\ last.cond = NoCond)
            /\ addr \in DOMAIN now => now[addr] = last.cond
            /\ DOMAIN now \ {addr} = DOMAIN was \ {addr}
            /\ \A a \in DOMAIN now \ {addr} : now[a] = was[a]
            /\ \A i \in DOMAIN frames \ {last.frame} :
                  frames[i].breakpoints = last.pre.frames[i].breakpoints

\* a condition given for a registered address has replaced the old one,
\* beside another breakpoint
ToggleSetsOrRemovesReached ==
    /\ last.op = "toggle"
    /\ last.cond = Cond("x")
    /\ last.arg \in DOMAIN Before(last.frame).breakpoints
    /\ Before(last.frame).breakpoints[last.arg] = NoCond
    /\ View(last.frame).breakpoints[last.arg] = Cond("x")
    /\ Cardinality(DOMAIN View(last.frame).breakpoints) = 2

\* the last call made on a frame was a call() that returned a child frame
Called == last.op = "call" /\ last.kind = "none"
\* the caller's stack before the call, the function called, its parameter
\* and variable names, the arguments popped
CallerStack == Before(last.frame).stack
Callee == CallerStack[Len(CallerStack) - last.arg]
CalleeNames == Codes[Callee.v].co_varnames
Arguments == SubSeq(CallerStack, Len(CallerStack) - last.arg + 1, Len(CallerStack))
Range(seq) == {seq[i] : i \in DOMAIN seq}

\* C7, as stated: call(argc), for every argc >= 0, takes the top argc + 1
\* elements off the caller's stack and binds, in the child's locals, the
\* first argc parameters to the argc popped arguments in order, and binds no
\* other value of the stack.
CallBindsArguments ==
    Called =>
        LET child == View(vm)
        IN  /\ View(last.frame).stack =
                  SubSeq(CallerStack, 1, Len(CallerStack) - last.arg - 1)
            /\ \A j \in 1..Min(last.arg, Len(CalleeNames)) :
                  /\ CalleeNames[j] \in DOMAIN child.locals
                  /\ child.locals[CalleeNames[j]] = Arguments[j]
            /\ \A j \in (last.arg + 1)..Len(CalleeNames) :
                  CalleeNames[j] \in DOMAIN child.locals =>
                      child.locals[CalleeNames[j]] \in Range(Callee.items)

\* C8, as stated, for argc >= 1: of a function with P parameters and D
\* defaults, call(argc) binds parameter j (argc <= j < P) to the default at
\* j - (P - D) when there is one, and binds nothing else beyond the
\* arguments: no default when argc = P, no variable beyond the parameters.
CallAlignsDefaults ==
    (Called /\ last.arg >= 1) =>
        LET child == View(vm)
            P == Codes[Callee.v].co_argcount
            D == Len(Callee.items)
        IN  \A j \in last.arg..(Len(CalleeNames) - 1) :
                IF j < P /\ j - (P - D) >= 0
                THEN /\ CalleeNames[j + 1] \in DOMAIN child.locals
                     /\ child.locals[CalleeNames[j + 1]] = Callee.items[j - (P - D) + 1]
                ELSE CalleeNames[j + 1] \notin DOMAIN child.locals

\* C9, as stated: the child's globals are the caller's locals merged over
\* the caller's globals, the locals taking precedence.
ChildGlobalsPreferLocals ==
    Called =>
        View(vm).globals = DictUnion(Before(last.frame).globals,
                                     Before(last.frame).locals)

\* C10, as stated: parent and child share one builtins mapping, whatever it
\* held at the call: an entry set in the builtins of either is in the
\* builtins of the other.
BuiltinsShared ==
    \A i \in DOMAIN frames :
        frames[i].parent # 0 =>
            dicts[frames[i].builtins] = dicts[frames[frames[i].parent].builtins]

\* the last call left every frame, list and dict as it was
NothingChanged ==
    /\ frames = last.pre.frames
    /\ lists = last.pre.lists
    /\ dicts = last.pre.dicts
    /\ vm = last.pre.vm
\* the last call left the lists and dicts other than these as they were
OnlyLists(refs) ==
    /\ Len(lists) = Len(last.pre.lists)
    /\ \A l \in DOMAIN lists \ refs : lists[l] = last.pre.lists[l]
    /\ dicts = last.pre.dicts

\* C11: no two frames hold the same stack, locals or globals object, and a
\* step made on one frame, by a command or by cont, leaves the stack, the
\* locals and the globals of every other frame as they were.
FramesOwnState ==
    /\ \A i, j \in DOMAIN frames :
          i # j =>
              /\ frames[i].stack # frames[j].stack
              /\ {frames[i].locals, frames[i].globals}
                     \cap {frames[j].locals, frames[j].globals} = {}
    /\ StepEvent =>
          \A g \in DOMAIN frames \ {last.frame} :
              /\ View(g).stack = Before(g).stack
              /\ View(g).locals = Before(g).locals
              /\ View(g).globals = Before(g).globals
\* a step in a child frame pushed onto the child's stack
FramesOwnStateReached ==
    /\ StepEvent
    /\ last.kind = "none"
    /\ frames[last.frame].parent # 0
    /\ Len(View(last.frame).stack) = Len(Before(last.frame).stack) + 1
    /\ View(frames[last.frame].parent).locals # EmptyDict

\* C12: call(argc) with a value that is not a function argc below the top
\* of the stack raises TypeError, makes no frame, keeps the current frame
\* and leaves every frame, stack and scope as it was.
CallChecksFunction ==
    (/\ last.op = "call"
     /\ last.arg >= 0
     /\ InRange(CallerStack, -last.arg - 1)
     /\ PyIndex(CallerStack, -last.arg - 1).t # "fn") =>
        /\ last.kind = "raise"
        /\ last.exc = "TypeError"
        /\ NothingChanged
\* call(1) was refused with an integer below one argument
CallChecksFunctionReached ==
    /\ last.op = "call"
    /\ last.arg = 1
    /\ last.exc = "TypeError"
    /\ Len(CallerStack) = 2
    /\ View(last.frame).stack = CallerStack

\* C13: return_call on a frame without a parent returns normally, keeps the
\* frame current and leaves every frame, stack and scope as it was.
ReturnAtRootIsNoOp ==
    (last.op = "return" /\ last.pre.frames[last.frame].parent = 0) =>
        /\ last.kind = "none"
        /\ NothingChanged
\* return_call was made on the root frame with a value on its stack
ReturnAtRootIsNoOpReached ==
    /\ last.op = "return"
    /\ frames[last.frame].parent = 0
    /\ Len(View(last.frame).stack) >= 1
    /\ vm = last.frame

\* the last call was a return_call that returned from a frame with a parent
ReturnedToParent ==
    /\ last.op = "return"
    /\ last.kind = "none"
    /\ frames[last.frame].parent # 0

\* C14: return_call on a frame with a parent and a value on its stack takes
\* the top off the frame's stack, appends that value to the parent's stack,
\* makes the parent current and changes nothing else: no counter, scope,
\* breakpoint or snapshot of any frame.
ReturnHandsTopOver ==
    ReturnedToParent =>
        LET child == Before(last.frame)
            parent == frames[last.frame].parent
        IN  /\ Len(child.stack) >= 1
            /\ View(last.frame).stack = Below(child, 1)
            /\ View(parent).stack = Append(Before(parent).stack, Peek(child, 1))
            /\ vm = parent
            /\ frames = last.pre.frames
            /\ OnlyLists({frames[last.frame].stack, frames[parent].stack})
\* return_call handed over the top of a stack of two
ReturnHandsTopOverReached ==
    /\ ReturnedToParent
    /\ Len(Before(last.frame).stack) = 2
    /\ Len(View(last.frame).stack) = 1
    /\ View(vm).stack = <<Peek(Before(last.frame), 1)>>

Snapshot(st, sp) ==
    [counter |-> sp.counter, stack |-> st.lists[sp.stack],
     locals |-> st.dicts[sp.locals], globals |-> st.dicts[sp.globals]]

\* C16, as stated: every savepoint of every frame holds, whatever was done
\* to the frame since, the counter, the stack, the locals and the globals
\* that save recorded in it.
SnapshotsIndependent ==
    \A i \in DOMAIN frames :
        \A k \in DOMAIN frames[i].savepoints :
            Snapshot(Pre, frames[i].savepoints[k]) = frames[i].savepoints[k].saved

\* the last call was a restore that returned
Restored == last.op = "restore" /\ last.kind = "none"

\* C17: restore(n) with 1 <= n <= the number of savepoints returns and makes
\* the counter, the stack, the locals and the globals of the frame those of
\* the n-th most recent savepoint; it removes, reorders and changes no
\* savepoint; when the savepoint had not been restored before, the frame is
\* in the state save recorded, whatever was done to it since; and the same
\* restore made again would leave the frame in the same state.
RestoreSetsLiveState ==
    last.op = "restore" =>
        LET old == last.pre.frames[last.frame].savepoints
            now == frames[last.frame].savepoints
            live == View(last.frame)
            exact(snap) ==
                /\ SameState(live, Snapshot(last.pre, snap))
                /\ ~snap.restored => SameState(live, snap.saved)
            again(r) ==
                /\ r.exc = ""
                /\ SameState(live, Snapshot(Pre, now[r.at]))
        IN  /\ (last.arg >= 1 /\ last.arg <= Len(old)) => last.kind = "none"
            /\ Restored =>
                  /\ last.arg <= Len(old)
                  /\ exact(old[Len(old) - last.arg + 1])
                  /\ Len(now) = Len(old)
                  /\ \A k \in DOMAIN old :
                        /\ Snapshot(Pre, now[k]) = Snapshot(last.pre, old[k])
                        /\ now[k].saved = old[k].saved
                  /\ again(restore(now, last.arg))
\* restore(1) undid two steps made since the save
RestoreSetsLiveStateReached ==
    /\ Restored
    /\ last.arg = 1
    /\ Before(last.frame).counter = 4
    /\ Len(Before(last.frame).stack) = 2
    /\ View(last.frame).counter = 0
    /\ View(last.frame).stack = <<>>

\* the addresses opcodes() yields for frame self
Yielded(self) == {item[1] : item \in Range(opcodes(self).yielded)}
\* the last call was a step that returned no fault on an instruction that
\* is not a jump
SteppedOn ==
    /\ StepEvent
    /\ last.kind = "none"
    /\ DecodedName # "JUMP_ABSOLUTE"

OnLoadConst ==
    /\ StepEvent
    /\ Decoded.exc = ""
    /\ DecodedName = "LOAD_CONST"
    /\ InRange(co_consts(Before(last.frame)), Decoded.arg)

\* C19: a step on LOAD_CONST k, with or without the unsafe permission,
\* returns no fault, appends constants[k] to the stack, moves the counter by
\* the width of the instruction and leaves the locals and the globals as
\* they were; and two steps from the initial state of the program
\* LOAD_CONST 0; LOAD_CONST 1; ... with constants [42, 7] leave the stack
\* [42, 7].
LoadConstPushes ==
    /\ OnLoadConst =>
          /\ last.kind = "none"
          /\ View(last.frame).stack =
                 Append(Before(last.frame).stack,
                        PyIndex(co_consts(Before(last.frame)), Decoded.arg))
          /\ View(last.frame).counter =
                 Before(last.frame).counter + Width(Before(last.frame))
          /\ View(last.frame).locals = Before(last.frame).locals
          /\ View(last.frame).globals = Before(last.frame).globals
    /\ (/\ last.op = "step"
        /\ cmds = MaxCmds - 2
        /\ frames[1].code = 1
        /\ Before(1).counter = 2
        /\ View(1).counter = 4) =>
          View(1).stack = <<IntV(42), IntV(7)>>
\* the second of two steps pushed 7 over 42 without the unsafe permission
LoadConstPushesReached ==
    /\ OnLoadConst
    /\ ~last.unsafe
    /\ cmds = MaxCmds - 2
    /\ Decoded.arg = 1
    /\ View(last.frame).counter = 4
    /\ View(last.frame).stack = <<IntV(42), IntV(7)>>

\* name looked up in the extra bindings, else in the locals, else in the
\* globals, else in the builtins of self
Resolve(self, name, ctx) ==
    IF name \in DOMAIN ctx THEN Ok(ctx[name])
    ELSE IF name \in DOMAIN self.locals THEN Ok(self.locals[name])
    ELSE IF name \in DOMAIN self.globals THEN Ok(self.globals[name])
    ELSE IF name \in DOMAIN self.builtins THEN Ok(self.builtins[name])
    ELSE Exc("NameError")
GuardNames == {"x", "y", "len", "arg", "stack", "z"}
\* the bindings step hands to the condition of an allowlist entry
GuardCtx(self, arg) ==
    [n \in {"arg", "stack"} |-> IF n = "arg" THEN IntV(arg) ELSE ListV(self.stack)]
\* the last step was made without the unsafe permission on an unsafe opcode
\* whose allowlist entry has a condition
Guarded ==
    /\ StepEvent
    /\ ~last.unsafe
    /\ Decoded.exc = ""
    /\ DecodedName \in UnsafeNames
    /\ DecodedName \in DOMAIN Before(last.frame).unsafe_ignores
    /\ HasCond(Before(last.frame).unsafe_ignores[DecodedName])
\* what the condition of that entry resolves to
GuardValue ==
    Resolve(Before(last.frame),
            Before(last.frame).unsafe_ignores[DecodedName][1],
            GuardCtx(Before(last.frame), Decoded.arg))

\* C20: evaluate resolves a name to the extra binding, else to the local,
\* else to the global, else to the builtin; a step on an unsafe opcode
\* guarded by an allowlist condition is refused, with every scope as it
\* was, when the condition so resolved is false, and is not refused when it
\* is true; and no step binds the names of the extra bindings in, or
\* changes, the locals, globals or builtins of a frame it is not made on,
\* nor the builtins of any frame.
GuardReadsMergedContext ==
    /\ \A f \in DOMAIN frames, name \in GuardNames :
          /\ evaluate(View(f), name, EmptyDict) = Resolve(View(f), name, EmptyDict)
          /\ evaluate(View(f), name, GuardCtx(View(f), 0))
                 = Resolve(View(f), name, GuardCtx(View(f), 0))
    /\ (Guarded /\ GuardValue.exc = "") =>
          IF Truthy(GuardValue.val)
          THEN last.exc # "UnsafeOperation"
          ELSE /\ last.kind = "fault"
               /\ last.exc = "UnsafeOperation"
               /\ NothingChanged
    /\ StepEvent =>
          \A f \in DOMAIN frames :
              /\ View(f).builtins = Before(f).builtins
              /\ \A n \in {"arg", "stack"} :
                    /\ n \in DOMAIN View(f).locals => n \in DOMAIN Before(f).locals
                    /\ n \in DOMAIN View(f).globals => n \in DOMAIN Before(f).globals
\* a jump with operand 0 was refused on the condition arg while the locals
\* bind arg to 1
GuardReadsMergedContextReached ==
    /\ Guarded
    /\ "arg" \in DOMAIN Before(last.frame).locals
    /\ Before(last.frame).locals["arg"] = IntV(1)
    /\ Decoded.arg = 0
    /\ Before(last.frame).unsafe_ignores[DecodedName] = Cond("arg")
    /\ last.exc = "UnsafeOperation"
    /\ View(last.frame).locals = Before(last.frame).locals

\* C21: on an unsafe opcode, a step is refused as an unsafe operation
\* exactly when the instruction is not allowed, where allowed is: the
\* caller's unsafe flag when the opcode's name is not in the allowlist; true
\* when it is there without a condition; and, when it is there with a
\* condition, whether the condition is true with the operand bound to arg
\* and the stack to stack, whatever the caller's flag.
AllowlistOverridesFlag ==
    (StepEvent /\ Decoded.exc = "" /\ DecodedName \in UnsafeNames) =>
        LET ignores == Before(last.frame).unsafe_ignores
            refused == last.kind = "fault" /\ last.exc = "UnsafeOperation"
        IN  IF DecodedName \notin DOMAIN ignores THEN refused <=> ~last.unsafe
            ELSE IF ~HasCond(ignores[DecodedName]) THEN ~refused
            ELSE GuardValue.exc = "" => (refused <=> ~Truthy(GuardValue.val))
\* a step made with the unsafe permission was refused because the condition
\* of the allowlist entry was false
AllowlistOverridesFlagReached ==
    /\ StepEvent
    /\ last.unsafe
    /\ Decoded.exc = ""
    /\ DecodedName \in DOMAIN Before(last.frame).unsafe_ignores
    /\ HasCond(Before(last.frame).unsafe_ignores[DecodedName])
    /\ GuardValue = Ok(IntV(0))
    /\ last.exc = "UnsafeOperation"
    /\ SameState(Before(last.frame), View(last.frame))

\* C22, as stated: a step made without the unsafe permission and with an
\* empty allowlist on JUMP_ABSOLUTE returns no unsafe-operation fault and
\* leaves the counter on the target of the jump.
JumpIsSafe ==
    (/\ StepEvent
     /\ ~last.unsafe
     /\ Decoded.exc = ""
     /\ DecodedName = "JUMP_ABSOLUTE"
     /\ Before(last.frame).unsafe_ignores = EmptyDict) =>
        /\ last.exc # "UnsafeOperation"
        /\ View(last.frame).counter = Decoded.arg * 2

\* C23, as stated: after an interrupt of cont the frame is either as it was
\* before the step in progress, or as that step leaves it when it completes:
\* its effect on the stack and the scopes applied and the counter advanced.
InterruptIsAtomic ==
    last.op = "interrupt" =>
        \/ SameState(View(last.frame), Before(last.frame))
        \/ \E host \in HostOutcomes :
              LET completes(r) == r.kind = "none" /\ SameState(View(last.frame), r.self)
              IN  completes(step(Before(last.frame), last.unsafe, host))

\* C27: for a version below POSITIONAL_ONLY_PARAMS fix_code_marshal returns
\* the serialized code object with four zero bytes after the argcount of
\* every code object in it, at every nesting depth, and no other change, so
\* 4 bytes longer per code object; otherwise it returns the buffer unchanged
PatchIsStructural ==
    loader.obj.t = "c" =>
        /\ loader.pc # "raised"
        /\ loader.pc = "returned" =>
              IF VersionLT(loader.version, POSITIONAL_ONLY_PARAMS)
              THEN /\ loader.code = dumps(loader.obj, TRUE)
                   /\ Len(loader.code) =
                         Len(loader.src) + 4 * code_objects(loader.obj)
              ELSE loader.code = loader.src

\* C28: the turn of the scan on a long integer of count n, at offset 2 of the
\* serialized tuple (long, None), leaves i at 2 + 1 + 4 + 2 * |n|, on the
\* tag of None, on a host of either digit width
LongSkipSpan ==
    (loader.obj.t = ")" /\ loader.from = 2) =>
        /\ loader.i = 2 + 1 + 4 + 2 * Abs(loader.obj.items[1].n)
        /\ loader.code[loader.i + 1] = Tag("N")

\* the marker registered for the greatest magic of the registry that is <= m
Registered(m) ==
    LET below == {j \in DOMAIN PYC_MAGIC_NUMBERS : PYC_MAGIC_NUMBERS[j][1] <= m}
    IN  PYC_MAGIC_NUMBERS[CHOOSE j \in below : \A k \in below : k <= j][2]

\* C24: once read_pyc has left its loop over the registry, on a magic in
\* 3000..3999, version is bound to the marker registered for the greatest
\* magic of the registry that is <= the magic of the file
VersionIsFloorMarker ==
    loader.pc \in {"skip", "load", "returned"} =>
        loader.version = <<Registered(loader.magic)>>

\* a valid magic, and no sentinel byte after it
TruncatedStream ==
    /\ from_bytes(PySlice(loader.f, 0, 2)) \in 3000..3999
    /\ \A j \in 3..Len(loader.f) : loader.f[j] # Tag("c") + FLAG_REF

\* C25: read_pyc on a stream with a valid magic that ends before the
\* sentinel byte ends by raising, and returns nothing
TruncatedDecodeTerminates ==
    TruncatedStream => (<>(loader.pc = "raised") /\ [](loader.pc # "returned"))

\* C26: on the bytes of an export, read_pyc hands marshal.loads data that
\* begin with the tag byte of the top-level code object, and returns a code
\* object equal to the exported one
ExportRoundTrip ==
    loader.exported =>
        /\ loader.pc = "load" =>
              PySlice(loader.f, loader.pos, loader.pos + 1) = <<Tag("c") + FLAG_REF>>
        /\ loader.pc \in {"returned", "raised"} =>
              loader.pc = "returned" /\ loader.result = loader.obj

\* the code object assembled from the children met so far
Assembled == IF loader.pc = "returned" THEN loader.result ELSE CodeType(loader.st)
\* the instructions emitted before child k: the slot of an instruction, the
\* address of a label
Slot(k) == Cardinality({j \in 1..(k - 1) : loader.prog[j].k = "op"})
\* the operand byte of the instruction of child k
Operand(k) == Assembled.co_code[2 * Slot(k) + 2]
Defines(k, label) == loader.prog[k].k = "label" /\ loader.prog[k].arg.s = label
Defining(label) == {k \in DOMAIN loader.prog : Defines(k, label)}
JumpsTo(k, label) ==
    /\ loader.prog[k].k = "op"
    /\ loader.prog[k].op \in hasjabs
    /\ loader.prog[k].arg.t = "str"
    /\ loader.prog[k].arg.s = label
LabelNames == {"L", "M"}

\* C29: the operand of every jump to a label with one defining line is the
\* number of instructions emitted before that line, for a jump before the
\* line and for a jump after it; and the turn of the loop on the line of a
\* label changes only operand bytes of earlier jumps to that label
LabelsResolved ==
    loader.pc # "raised" =>
        /\ \A label \in LabelNames, k \in DOMAIN loader.prog :
              (JumpsTo(k, label) /\ Cardinality(Defining(label)) = 1) =>
                  \A d \in Defining(label) : Operand(k) = Slot(d)
        /\ \A label \in LabelNames :
              (loader.prog # <<>> /\ Defines(Len(loader.prog), label)) =>
                  /\ Len(loader.st.bytecode) = Len(loader.before.bytecode)
                  /\ \A j \in DOMAIN loader.st.bytecode :
                        loader.st.bytecode[j] # loader.before.bytecode[j] =>
                            \E k \in DOMAIN loader.prog :
                                JumpsTo(k, label) /\ j = 2 * Slot(k) + 2

\* a label defined once, past the first instruction, jumped to from before
\* and from after its line
LabelsResolvedReached ==
    /\ loader.pc = "returned"
    /\ \E label \in LabelNames :
          /\ Cardinality(Defining(label)) = 1
          /\ \E d \in Defining(label) :
                /\ Slot(d) > 0
                /\ \E k \in 1..(d - 1) : JumpsTo(k, label)
                /\ \E k \in (d + 1)..Len(loader.prog) : JumpsTo(k, label)

\* C30: in the code object assembled, the operand of every instruction
\* written with @ on a constant or a name is an index of co_consts or of
\* co_names, and the slot holds the literal, the child code object or the
\* name written
IndexInvariant ==
    loader.pc # "raised" =>
        \A k \in DOMAIN loader.prog :
            LET n == loader.prog[k]
                holds(table, value) ==
                    /\ Operand(k) < Len(table)
                    /\ table[Operand(k) + 1] = value
                same(table, value) ==
                    /\ Operand(k) < Len(table)
                    /\ table[Operand(k) + 1].t = value.t
                    /\ table[Operand(k) + 1] = value
            IN  (n.k = "op" /\ n.arg.t # "int") =>
                    IF n.op \in hasconst
                    THEN same(Assembled.co_consts,
                              IF n.arg.t = "code"
                              THEN CodeV(pys_assemble(n.arg.children).val)
                              ELSE literal_eval(n.arg.s))
                    ELSE n.op \in hasname => holds(Assembled.co_names, n.arg.s)

\* compat.py: from this version on the operand of a jump counts instructions
JUMP_BY_OFFSET == <<3, 10, 0, "alpha", 7>>

\* the last call was a step that returned no fault on the opcode named
SucceededOn(names) ==
    /\ StepEvent
    /\ last.kind = "none"
    /\ Decoded.exc = ""
    /\ DecodedName \in names

\* C32, as stated: a step that returns no fault on JUMP_ABSOLUTE t leaves the
\* counter at t when the version of the frame is below JUMP_BY_OFFSET and at
\* 2 * t from that version on.
JumpLandsOnTarget ==
    SucceededOn({"JUMP_ABSOLUTE"}) =>
        View(last.frame).counter =
            IF VersionLT(Before(last.frame).version, JUMP_BY_OFFSET)
            THEN Decoded.arg ELSE 2 * Decoded.arg

\* the operator each binary and in-place opcode names
NamedOperator ==
    [BINARY_MATRIX_MULTIPLY |-> "@", BINARY_POWER |-> "**",
     BINARY_MULTIPLY |-> "*", BINARY_MODULO |-> "%", BINARY_ADD |-> "+",
     BINARY_SUBTRACT |-> "-", BINARY_FLOOR_DIVIDE |-> "//",
     BINARY_TRUE_DIVIDE |-> "/",
     INPLACE_MATRIX_MULTIPLY |-> "@", INPLACE_POWER |-> "**",
     INPLACE_MULTIPLY |-> "*", INPLACE_MODULO |-> "%", INPLACE_ADD |-> "+",
     INPLACE_SUBTRACT |-> "-", INPLACE_FLOOR_DIVIDE |-> "//",
     INPLACE_TRUE_DIVIDE |-> "/"]

\* C33, as stated: a step that returns no fault on a binary or in-place
\* arithmetic opcode, with two integers a and b on top of the stack, replaces
\* them by a op b, op the operator the opcode names, and changes nothing
\* else of the stack, the locals and the globals.
ArithmeticApplied ==
    (/\ SucceededOn(DOMAIN NamedOperator)
     /\ Depth(Before(last.frame)) >= 2
     /\ IsNum(Peek(Before(last.frame), 1))
     /\ IsNum(Peek(Before(last.frame), 2))) =>
        LET before == Before(last.frame)
            applied(r) ==
                /\ r.exc = ""
                /\ View(last.frame).stack = Append(Below(before, 2), r.val)
        IN  /\ applied(NumOp(NamedOperator[DecodedName], Peek(before, 2).v,
                             Peek(before, 1).v))
            /\ View(last.frame).locals = before.locals
            /\ View(last.frame).globals = before.globals

\* C35, as stated: after a step that returned a fault the counter, the stack,
\* the locals and the globals of the frame are as they were before the step.
FaultIsRetryable ==
    (StepEvent /\ last.kind = "fault") =>
        SameState(Before(last.frame), View(last.frame))

\* C34, as stated: a step on BUILD_TUPLE n or BUILD_LIST n, n >= 0, with at
\* least n elements on the stack, returns no fault, takes the top n elements
\* off the stack and pushes one tuple or list of them in stack order, the
\* empty one for n = 0; the elements below stay.
SequenceBuilt ==
    (/\ StepEvent
     /\ Decoded.exc = ""
     /\ DecodedName \in {"BUILD_TUPLE", "BUILD_LIST"}
     /\ Depth(Before(last.frame)) >= Decoded.arg) =>
        LET before == Before(last.frame)
            n == Decoded.arg
            tag == IF DecodedName = "BUILD_TUPLE" THEN "tuple" ELSE "list"
        IN  /\ last.kind = "none"
            /\ View(last.frame).stack =
                  Append(SubSeq(before.stack, 1, Depth(before) - n),
                         Val(tag, 0, SubSeq(before.stack, Depth(before) - n + 1,
                                            Depth(before))))

\* C31, as stated: the return command on a frame with a parent and a value
\* on its stack appends the top of the frame's stack to the parent's stack,
\* makes the parent current and creates no frame; on the root frame it
\* reports an error and changes nothing.
ReturnCommandReturns ==
    last.op = "return_" =>
        IF last.pre.frames[last.frame].parent = 0
        THEN last.kind = "raise" /\ NothingChanged
        ELSE Depth(Before(last.frame)) >= 1 =>
                LET parent == last.pre.frames[last.frame].parent
                IN  /\ last.kind = "none"
                    /\ vm = parent
                    /\ Len(frames) = Len(last.pre.frames)
                    /\ View(parent).stack =
                          Append(Before(parent).stack, Peek(Before(last.frame), 1))

\* cont(unsafe=False) is running on a frame whose unsafe-allowlist is empty
SafeContRunning ==
    /\ run.active
    /\ ~run.unsafe
    /\ frames[run.frame].unsafe_ignores = EmptyDict
\* the last call was a step of such a cont
SafeContStep ==
    /\ last.op = "cont_step"
    /\ ~last.unsafe
    /\ Before(last.frame).unsafe_ignores = EmptyDict

\* what a step of such a cont leaves: the counter moved forward when the step
\* returned no fault, no more such steps than the code has instructions, and
\* a cont that returned did so by the fault of the step, at a breakpoint, or
\* with the counter past the end of the bytecode
SafeContAdvances ==
    SafeContStep =>
        /\ last.kind = "none" =>
              View(last.frame).counter > Before(last.frame).counter
        /\ run.steps <= Cardinality(Yielded(View(last.frame)))
        /\ ~run.active =>
              \/ run.kind = "fault"
              \/ run.kind = "none" /\ Triggered(View(last.frame))
              \/ /\ run.kind = "raise"
                 /\ View(last.frame).counter >= Len(co_code(View(last.frame)))

\* C36: with an empty unsafe-allowlist every step of cont(unsafe=False) that
\* returns no fault moves the counter forward, cont makes at most as many
\* such steps as the code has instructions, and cont ends: by the fault of a
\* step, at a breakpoint, or with the counter past the end of the bytecode
SafeContEnds == []SafeContAdvances /\ (SafeContRunning ~> ~run.active)

\* a safe cont ran a whole program of four instructions and ended past its end
SafeContEndsReached ==
    /\ SafeContStep
    /\ ~run.active
    /\ run.kind = "raise"
    /\ run.steps = 4
    /\ run.start = 0

=============================================================================
